---- MODULE Spec2Model ----
(***************************************************************************)
(* Hook-and-catch arcade round: session orchestrator (GameManager), hook   *)
(* state machine (HookController), spawn scheduler (ObjectSpawner with     *)
(* ObjectPool and SpawnedObjectController) and the combo / score engine    *)
(* (ComboManager, ScoreManager).                                           *)
(*                                                                         *)
(* Units.  Time is in milliseconds, line length in milli-pixels, angles in *)
(* milli-degrees, combo multipliers in halves (mult2 = 2 x multiplier), so *)
(* that every value of the configuration is an integer.                    *)
(*                                                                         *)
(* Geometry.  Object positions and the hook-tip position are not stored:   *)
(* the distance test of _checkCollisions is an input of the frame (which   *)
(* candidate node, if any, is the first one within its catch radius), and  *)
(* so is the frame on which an object leaves the play field.               *)
(***************************************************************************)
EXTENDS Integers, Sequences, FiniteSets, TLC

VARIABLES gm, score, combo, hook, sp, pools, nodes, sched, storage, ev, env,
          draw, ftueCtrl, ad

vars == <<gm, score, combo, hook, sp, pools, nodes, sched, storage, ev, env, draw,
          ftueCtrl, ad>>

\* ------------------------------------------------------------------------
\* Configuration (GameConfig.ts, ObjectDatabase.ts)
\* ------------------------------------------------------------------------

sessionDurationSeconds == 45
baseSpawnIntervalMs == 1200
maxActiveObjects == 8
hookBaseSpeed == 70
hookMaxAngleDeg == 60
objectPoolSize == 12
poolMaxSize == 24
REWARD_RHYTHM_INTERVAL_S == 9
FAIL_SOFT_THRESHOLD == 2
FTUE_GUARANTEED_CATCHES == 3
HOOK_LINE_MIN_LENGTH == 20
HOOK_LINE_MAX_LENGTH == 520
HOOK_DROP_SPEED == 340
HOOK_RETRACT_BASE == 220
LOADING_DELAY_MS == 300
BONUS_FIRST_DELAY_MS == 3000
BONUS_STEP_DELAY_MS == 4000
RESULT_DELAY_MS == 1500

\* comboTiers: multiplier kept as mult2 = 2 x multiplier
comboTiers ==
  << [minCombo |-> 1,  mult2 |-> 2, label |-> ""],
     [minCombo |-> 3,  mult2 |-> 3, label |-> "GOOD!"],
     [minCombo |-> 5,  mult2 |-> 4, label |-> "GREAT!"],
     [minCombo |-> 8,  mult2 |-> 6, label |-> "AMAZING!"],
     [minCombo |-> 12, mult2 |-> 8, label |-> "INSANE!"] >>

\* difficultyLevels: multipliers x 100
difficultyLevels ==
  << [id |-> "easy",   spawnRate100 |-> 100, hookSpeed100 |-> 100, objectSpeed100 |-> 100],
     [id |-> "normal", spawnRate100 |-> 130, hookSpeed100 |-> 110, objectSpeed100 |-> 125],
     [id |-> "hard",   spawnRate100 |-> 160, hookSpeed100 |-> 120, objectSpeed100 |-> 155] >>

\* bracket starts in seconds; index i of the code is position i + 1 here
DIFFICULTY_TIME_BRACKETS == <<0, 15, 30>>

\* The catalogue, in catalogue order; weights x 100, pull weight x 10
OBJECT_DATABASE ==
  << [id |-> "common_small",  type |-> "COMMON",   baseScoreValue |-> 10,
      spawnWeight |-> 30, isObstacle |-> FALSE,
      moveSpeedMin |-> 80, moveSpeedMax |-> 130],
     [id |-> "common_large",  type |-> "COMMON",   baseScoreValue |-> 25,
      spawnWeight |-> 20, isObstacle |-> FALSE,
      moveSpeedMin |-> 55, moveSpeedMax |-> 85],
     [id |-> "rare_gem",      type |-> "RARE",     baseScoreValue |-> 60,
      spawnWeight |-> 18, isObstacle |-> FALSE,
      moveSpeedMin |-> 90, moveSpeedMax |-> 145],
     [id |-> "bonus_gold",    type |-> "BONUS",    baseScoreValue |-> 100,
      spawnWeight |-> 12, isObstacle |-> FALSE,
      moveSpeedMin |-> 45, moveSpeedMax |-> 75],
     [id |-> "obstacle_rock", type |-> "OBSTACLE", baseScoreValue |-> -30,
      spawnWeight |-> 12, isObstacle |-> TRUE,
      moveSpeedMin |-> 65, moveSpeedMax |-> 110],
     [id |-> "special_star",  type |-> "SPECIAL",  baseScoreValue |-> 200,
      spawnWeight |-> 8,  isObstacle |-> FALSE,
      moveSpeedMin |-> 38, moveSpeedMax |-> 65] >>

ConfigIds == {OBJECT_DATABASE[i].id : i \in 1..Len(OBJECT_DATABASE)}

getObjectConfig(id) ==
  OBJECT_DATABASE[CHOOSE i \in 1..Len(OBJECT_DATABASE) : OBJECT_DATABASE[i].id = id]

FTUE_OBJECT_ID == "bonus_gold"

FTUE_OBJECT_CONFIG == getObjectConfig(FTUE_OBJECT_ID)

FAIL_SOFT_WEIGHT_OVERRIDE ==
  [id \in ConfigIds |->
     CASE id = "common_small"  -> 40
       [] id = "bonus_gold"    -> 30
       [] id = "obstacle_rock" -> 0
       [] id = "rare_gem"      -> 20
       [] id = "common_large"  -> 8
       [] id = "special_star"  -> 2]

NoOverride == [id \in {} |-> 0]

OBJECT_PULL_WEIGHT ==
  [id \in ConfigIds |->
     CASE id = "common_small"  -> 10
       [] id = "common_large"  -> 17
       [] id = "rare_gem"      -> 13
       [] id = "bonus_gold"    -> 22
       [] id = "obstacle_rock" -> 15
       [] id = "special_star"  -> 19]

PREFAB_TYPE_ORDER ==
  <<"common_small", "rare_gem", "bonus_gold", "obstacle_rock", "special_star">>

PoolKeys == {PREFAB_TYPE_ORDER[i] : i \in 1..Len(PREFAB_TYPE_ORDER)}

NoNode == 0

\* ------------------------------------------------------------------------
\* The world: one record holding every variable, so that a handler is an
\* operator from world to world and handlers compose as the calls do.
\* ------------------------------------------------------------------------

World ==
  [gm |-> gm, score |-> score, combo |-> combo, hook |-> hook, sp |-> sp,
   pools |-> pools, nodes |-> nodes, sched |-> sched, storage |-> storage,
   ev |-> ev, env |-> env, ftueCtrl |-> ftueCtrl]

\* EventBus.emit as far as the presentation layer goes: the event is logged.
\* ev is the trace of the last step, in order: the events it emitted and,
\* as <<"spawned", node, configId, isFTUE>>, the instances it spawned.
Emit(w, e) == [w EXCEPT !.ev = Append(@, e)]

\* Math.round(v * mult2 / 2): half-way cases go up, as in JavaScript
RoundHalf(x2) == (x2 + 1) \div 2

Max(a, b) == IF a >= b THEN a ELSE b

\* ------------------------------------------------------------------------
\* ObjectSpawner._onFailSoft (listener of FAIL_SOFT_ACTIVE)
\* ------------------------------------------------------------------------

\* as Spawner_onFailSoft, but the flag is only ever raised
Spawner_onFailSoft_Sticky(w, active) ==
  [w EXCEPT !.sp.failSoftActive = @ \/ active]

Spawner_onFailSoft(w, active) == [w EXCEPT !.sp.failSoftActive = active]

EmitFailSoft(w, active) ==
  Spawner_onFailSoft(Emit(w, <<"FAIL_SOFT_ACTIVE", active>>), active)

\* ------------------------------------------------------------------------
\* FTUEController: the tutorial overlay of a first round.  enabled: its
\* listeners are registered; active: the tutorial is running.  Speeds are in
\* hundredths of a degree per second.
\* ------------------------------------------------------------------------

FTUE_HOOK_SPEED_MULTIPLIER_PCT == 55

Hook_setSwingSpeed(w, degPerSec100) == [w EXCEPT !.hook.swingSpeed100 = degPerSec100]

FTUE_beginFTUE(w) ==
  Hook_setSwingSpeed([w EXCEPT !.ftueCtrl.active = TRUE],
                     hookBaseSpeed * FTUE_HOOK_SPEED_MULTIPLIER_PCT)

FTUE_completeFTUE(w) ==
  Emit(Hook_setSwingSpeed([w EXCEPT !.ftueCtrl.active = FALSE, !.ftueCtrl.enabled = FALSE],
                          hookBaseSpeed * 100),
       <<"FTUE_COMPLETE">>)

\* listener of GAME_STATE_CHANGE
FTUE_onStateChange(w, next) ==
  IF w.ftueCtrl.enabled /\ next = "PLAYING" /\ ~w.ftueCtrl.active THEN FTUE_beginFTUE(w) ELSE w

\* listener of FTUE_CATCH
FTUE_onFTUECatch(w, remaining) ==
  IF ~w.ftueCtrl.enabled \/ ~w.ftueCtrl.active THEN w
  ELSE IF remaining = 0 THEN FTUE_completeFTUE(w) ELSE w

\* ------------------------------------------------------------------------
\* ComboManager
\* ------------------------------------------------------------------------

ComboInit ==
  [comboCount |-> 0, maxComboReached |-> 0, consecutiveFailures |-> 0,
   currentTier |-> 1, failSoftActive |-> FALSE]

Combo_reset(w) == [w EXCEPT !.combo = ComboInit]

\* ComboManager._resolveTier: the last tier of the table whose minCombo <= combo
RECURSIVE resolveTierFrom(_, _, _)
resolveTierFrom(comboCount, i, resolved) ==
  IF i > Len(comboTiers) THEN resolved
  ELSE resolveTierFrom(comboCount, i + 1,
                       IF comboCount >= comboTiers[i].minCombo THEN i ELSE resolved)

\* as resolveTier, but a tier is reached only above its minCombo
resolveTier_Above(comboCount) ==
  LET above == {i \in 1..Len(comboTiers) : comboCount > comboTiers[i].minCombo}
  IN IF above = {} THEN 1 ELSE CHOOSE i \in above : \A j \in above : j <= i

resolveTier(comboCount) == resolveTierFrom(comboCount, 1, 1)

currentMultiplier2(w) == comboTiers[w.combo.currentTier].mult2

\* as Combo_onSuccessfulCatch, but the session maximum is not raised
Combo_onSuccessfulCatch_NoMax(w) ==
  LET c  == w.combo
      n  == c.comboCount + 1
      w1 == [w EXCEPT !.combo.comboCount = n,
                      !.combo.consecutiveFailures = 0]
      w2 == IF c.failSoftActive
            THEN EmitFailSoft([w1 EXCEPT !.combo.failSoftActive = FALSE], FALSE)
            ELSE w1
      t  == resolveTier(n)
      w3 == [w2 EXCEPT !.combo.currentTier = t]
  IN Emit(w3, <<"COMBO_UPDATED", n, comboTiers[t].mult2>>)

Combo_onSuccessfulCatch(w) ==
  LET c  == w.combo
      n  == c.comboCount + 1
      w1 == [w EXCEPT !.combo.comboCount = n,
                      !.combo.consecutiveFailures = 0,
                      !.combo.maxComboReached = IF n > @ THEN n ELSE @]
      w2 == IF c.failSoftActive
            THEN EmitFailSoft([w1 EXCEPT !.combo.failSoftActive = FALSE], FALSE)
            ELSE w1
      t  == resolveTier(n)
      w3 == [w2 EXCEPT !.combo.currentTier = t]
  IN Emit(w3, <<"COMBO_UPDATED", n, comboTiers[t].mult2>>)

\* as Combo_onMiss, but fail-soft is raised one failure late
Combo_onMiss_Late(w) ==
  LET c        == w.combo
      hadCombo == c.comboCount >= 3
      f        == c.consecutiveFailures + 1
      w1 == [w EXCEPT !.combo.comboCount = 0,
                      !.combo.currentTier = 1,
                      !.combo.consecutiveFailures = f]
      w2 == IF f > FAIL_SOFT_THRESHOLD /\ ~c.failSoftActive
            THEN EmitFailSoft([w1 EXCEPT !.combo.failSoftActive = TRUE], TRUE)
            ELSE w1
  IN IF hadCombo THEN Emit(w2, <<"COMBO_RESET", f>>) ELSE w2

Combo_onMiss(w) ==
  LET c        == w.combo
      hadCombo == c.comboCount >= 3
      f        == c.consecutiveFailures + 1
      w1 == [w EXCEPT !.combo.comboCount = 0,
                      !.combo.currentTier = 1,
                      !.combo.consecutiveFailures = f]
      w2 == IF f >= FAIL_SOFT_THRESHOLD /\ ~c.failSoftActive
            THEN EmitFailSoft([w1 EXCEPT !.combo.failSoftActive = TRUE], TRUE)
            ELSE w1
  IN IF hadCombo THEN Emit(w2, <<"COMBO_RESET", f>>) ELSE w2

\* ------------------------------------------------------------------------
\* ScoreManager
\* ------------------------------------------------------------------------

ScoreInit(best) ==
  [currentScore |-> 0, sessionHighScore |-> 0, persistedBest |-> best,
   isNewHighScore |-> FALSE, objectsCaught |-> 0, objectsMissed |-> 0]

Score_init(w) == [w EXCEPT !.score = ScoreInit(w.storage.highScore)]

\* as Score_addScore, but the new score is not floored at zero
Score_addScore_NoFloor(w, obj) ==
  LET multiplier == currentMultiplier2(w)
      delta      == RoundHalf(obj.scoreValue * multiplier)
      s          == w.score
      cur        == s.currentScore + delta
      beaten     == cur > s.persistedBest
      w1 == [w EXCEPT
               !.score.currentScore     = cur,
               !.score.objectsCaught    = IF delta >= 0 THEN @ + 1 ELSE @,
               !.score.objectsMissed    = IF delta >= 0 THEN @ ELSE @ + 1,
               !.score.isNewHighScore   = IF beaten THEN TRUE ELSE @,
               !.score.persistedBest    = IF beaten THEN cur ELSE @,
               !.score.sessionHighScore = IF cur > @ THEN cur ELSE @]
      w2 == IF beaten /\ ~s.isNewHighScore
            THEN Emit(w1, <<"HIGH_SCORE_BEATEN", cur>>)
            ELSE w1
  IN Emit(w2, <<"SCORE_UPDATED", cur, delta, multiplier>>)

\* as Score_addScore, but the signal is emitted on every new best
Score_addScore_Refire(w, obj) ==
  LET multiplier == currentMultiplier2(w)
      delta      == RoundHalf(obj.scoreValue * multiplier)
      s          == w.score
      cur        == Max(0, s.currentScore + delta)
      beaten     == cur > s.persistedBest
      w1 == [w EXCEPT
               !.score.currentScore     = cur,
               !.score.objectsCaught    = IF delta >= 0 THEN @ + 1 ELSE @,
               !.score.objectsMissed    = IF delta >= 0 THEN @ ELSE @ + 1,
               !.score.isNewHighScore   = IF beaten THEN TRUE ELSE @,
               !.score.persistedBest    = IF beaten THEN cur ELSE @,
               !.score.sessionHighScore = IF cur > @ THEN cur ELSE @]
      w2 == IF beaten
            THEN Emit(w1, <<"HIGH_SCORE_BEATEN", cur>>)
            ELSE w1
  IN Emit(w2, <<"SCORE_UPDATED", cur, delta, multiplier>>)

Score_addScore(w, obj) ==
  LET multiplier == currentMultiplier2(w)
      delta      == RoundHalf(obj.scoreValue * multiplier)
      s          == w.score
      cur        == Max(0, s.currentScore + delta)
      beaten     == cur > s.persistedBest
      w1 == [w EXCEPT
               !.score.currentScore     = cur,
               !.score.objectsCaught    = IF delta >= 0 THEN @ + 1 ELSE @,
               !.score.objectsMissed    = IF delta >= 0 THEN @ ELSE @ + 1,
               !.score.isNewHighScore   = IF beaten THEN TRUE ELSE @,
               !.score.persistedBest    = IF beaten THEN cur ELSE @,
               !.score.sessionHighScore = IF cur > @ THEN cur ELSE @]
      w2 == IF beaten /\ ~s.isNewHighScore
            THEN Emit(w1, <<"HIGH_SCORE_BEATEN", cur>>)
            ELSE w1
  IN Emit(w2, <<"SCORE_UPDATED", cur, delta, multiplier>>)

Score_recordMiss(w) == [w EXCEPT !.score.objectsMissed = @ + 1]

\* ------------------------------------------------------------------------
\* GameManager: catch / miss routing
\* ------------------------------------------------------------------------

\* as GM_onHookCatch, but the score is added before the combo is updated
GM_onHookCatch_ScoreFirst(w, obj) ==
  IF w.gm.state # "PLAYING" THEN w
  ELSE Combo_onSuccessfulCatch(Score_addScore(w, obj))

\* as GM_onHookCatch, but the session state is not checked
GM_onHookCatch_NoGuard(w, obj) == Score_addScore(Combo_onSuccessfulCatch(w), obj)

GM_onHookCatch(w, obj) ==
  IF w.gm.state # "PLAYING" THEN w
  ELSE Score_addScore(Combo_onSuccessfulCatch(w), obj)

\* as GM_onHookMiss, but only the miss counter is updated
GM_onHookMiss_CountOnly(w) ==
  IF w.gm.state # "PLAYING" THEN w ELSE Score_recordMiss(w)

GM_onHookMiss(w) ==
  IF w.gm.state # "PLAYING" THEN w
  ELSE Score_recordMiss(Combo_onMiss(w))

\* ------------------------------------------------------------------------
\* Nodes and ObjectPool
\*
\* nodes is the sequence of the nodes that have left a pool at least once
\* (a node's id is its index); every one of them is a child of SpawnArea
\* and carries a SpawnedObjectController.  A pool's free list is the
\* prewarmed nodes never yet acquired (fresh, a count: they are all alike,
\* inactive and unconfigured) below the released nodes (freed, a stack).
\* caughtCount is history, not program state: the number of HOOK_CATCH
\* events emitted for the node since it last left its pool.
\* ------------------------------------------------------------------------

NoData == [configId |-> "none", type |-> "NONE", scoreValue |-> 0]

NewNode(key) ==
  [pool |-> key, active |-> FALSE, ctrlActive |-> FALSE, data |-> NoData,
   ftueMode |-> FALSE, destroyed |-> FALSE, caughtCount |-> 0]

PoolNew(initialSize) == [fresh |-> initialSize, freed |-> <<>>]

freeCount(pool) == pool.fresh + Len(pool.freed)

\* ObjectPool.acquire: pops the free list, instantiates when it is empty
Pool_acquire(w, key) ==
  LET pool == w.pools[key] IN
  IF Len(pool.freed) > 0
  THEN LET n == pool.freed[Len(pool.freed)] IN
       [w |-> [w EXCEPT !.pools[key].freed = SubSeq(@, 1, Len(@) - 1),
                        !.nodes[n].active = TRUE,
                        !.nodes[n].caughtCount = 0],
        node |-> n]
  ELSE LET n == Len(w.nodes) + 1 IN
       [w |-> [w EXCEPT !.pools[key].fresh = IF @ > 0 THEN @ - 1 ELSE 0,
                        !.nodes = Append(@, [NewNode(key) EXCEPT !.active = TRUE])],
        node |-> n]

\* ObjectPool.release: deactivates the node; pushes it unless the list is full
Pool_release(w, key, n) ==
  IF freeCount(w.pools[key]) < poolMaxSize
  THEN [w EXCEPT !.nodes[n].active = FALSE,
                 !.pools[key].freed = Append(@, n)]
  ELSE [w EXCEPT !.nodes[n].active = FALSE,
                 !.nodes[n].destroyed = TRUE]

\* ------------------------------------------------------------------------
\* ObjectDatabase.rollRandomObject.  r is the value of Math.random() in
\* hundredths (0 .. 99); weights are in hundredths too, so roll x 10000.
\* ------------------------------------------------------------------------

WeightOf(weightOverride, cfg) ==
  IF cfg.id \in DOMAIN weightOverride THEN weightOverride[cfg.id] ELSE cfg.spawnWeight

RECURSIVE SumWeights(_, _)
SumWeights(weightOverride, i) ==
  IF i > Len(OBJECT_DATABASE) THEN 0
  ELSE WeightOf(weightOverride, OBJECT_DATABASE[i]) + SumWeights(weightOverride, i + 1)

RECURSIVE rollFrom(_, _, _)
rollFrom(weightOverride, roll, i) ==
  IF i > Len(OBJECT_DATABASE) THEN OBJECT_DATABASE[Len(OBJECT_DATABASE)]
  ELSE LET rest == roll - 100 * WeightOf(weightOverride, OBJECT_DATABASE[i]) IN
       IF rest <= 0 THEN OBJECT_DATABASE[i]
       ELSE rollFrom(weightOverride, rest, i + 1)

rollRandomObject(weightOverride, r) ==
  rollFrom(weightOverride, r * SumWeights(weightOverride, 1), 1)

\* draw holds one call of rollRandomObject made on its own: the override
\* table passed, the value of Math.random() and the id returned
NoDraw == [table |-> NoOverride, r |-> 0, result |-> "none"]

\* ------------------------------------------------------------------------
\* ObjectSpawner
\* ------------------------------------------------------------------------

SpawnerInit ==
  [active |-> <<>>, spawnTimer |-> 0,
   spawnInterval |-> [num |-> baseSpawnIntervalMs * 100, den |-> 100],
   isRunning |-> FALSE, speedMultiplier100 |-> 100,
   ftueMode |-> FALSE, ftueRemaining |-> 0, failSoftActive |-> FALSE,
   timeSinceLastCatch |-> 0]

resolvePoolKey(id) == IF id = "common_large" THEN "common_small" ELSE id

\* _poolForConfig: the pool key, or "none" when no pool is bound to it
poolForConfig(w, cfg) ==
  LET key == resolvePoolKey(cfg.id) IN
  IF key \in DOMAIN w.pools THEN key ELSE "none"

\* _buildPools over the prefab slots that are assigned
Spawner_buildPools(w) ==
  [w EXCEPT !.pools = [k \in w.env.prefabs |-> PoolNew(objectPoolSize)]]

Spawner_applyDifficulty(w, d) ==
  [w EXCEPT !.sp.spawnInterval = [num |-> baseSpawnIntervalMs * 100, den |-> d.spawnRate100],
            !.sp.speedMultiplier100 = d.objectSpeed100]

Spawner_init(w, isFTUE, difficulty) ==
  LET w1 == Spawner_applyDifficulty(Spawner_buildPools(w), difficulty) IN
  [w1 EXCEPT !.sp.ftueMode = isFTUE,
             !.sp.ftueRemaining = IF isFTUE THEN FTUE_GUARANTEED_CATCHES ELSE 0,
             !.sp.failSoftActive = FALSE,
             !.sp.timeSinceLastCatch = 0,
             !.sp.spawnTimer = 0,
             !.sp.active = <<>>,
             !.sp.isRunning = TRUE]

SPAWN_LANES_Y == <<-80, -190, -310>>

\* instance.moveSpeed in 1/10000 px/s; env.speedR is the value of
\* Math.random() for the speed, in hundredths
moveSpeed(w, cfg, isFTUE) ==
  LET speed100 == cfg.moveSpeedMin * 100 + w.env.speedR * (cfg.moveSpeedMax - cfg.moveSpeedMin) IN
  IF isFTUE THEN (IF speed100 < 60 * 100 THEN speed100 ELSE 60 * 100) * 100
  ELSE speed100 * w.sp.speedMultiplier100

\* env.laneR is the value of Math.random() for the lane, in hundredths
laneIndex(w, isFTUE) ==
  IF isFTUE THEN 0 ELSE (w.env.laneR * Len(SPAWN_LANES_Y)) \div 100

\* as Spawner_spawnObject, but a category without a pool stops the spawner
Spawner_spawnObject_Halt(w0, cfg, isFTUE) ==
  LET w   == Emit(w0, <<"attempt", cfg.id>>)
      key == poolForConfig(w, cfg) IN
  IF key = "none" THEN [w EXCEPT !.sp.isRunning = FALSE]
  ELSE LET a  == Pool_acquire(w, key)
           n  == a.node
           instance == [configId |-> cfg.id, type |-> cfg.type,
                        scoreValue |-> cfg.baseScoreValue]
       IN [a.w EXCEPT !.nodes[n].data = instance,
                      !.nodes[n].ftueMode = isFTUE,
                      !.nodes[n].ctrlActive = TRUE,
                      !.sp.active = Append(@, n),
                      !.ev = Append(@, <<"spawned", n, cfg.id, isFTUE,
                                         laneIndex(w, isFTUE), moveSpeed(w, cfg, isFTUE)>>)]

\* The trace records the call (attempt) and, when a node is configured, the
\* instance (spawned); neither is an EventBus event
Spawner_spawnObject(w0, cfg, isFTUE) ==
  LET w   == Emit(w0, <<"attempt", cfg.id>>)
      key == poolForConfig(w, cfg) IN
  IF key = "none" THEN w
  ELSE LET a  == Pool_acquire(w, key)
           n  == a.node
           instance == [configId |-> cfg.id, type |-> cfg.type,
                        scoreValue |-> cfg.baseScoreValue]
       IN [a.w EXCEPT !.nodes[n].data = instance,
                      !.nodes[n].ftueMode = isFTUE,
                      !.nodes[n].ctrlActive = TRUE,
                      !.sp.active = Append(@, n),
                      !.ev = Append(@, <<"spawned", n, cfg.id, isFTUE,
                                         laneIndex(w, isFTUE), moveSpeed(w, cfg, isFTUE)>>)]

\* as Spawner_trySpawn, but fail-soft is tested before first-time-user mode
Spawner_trySpawn_FailSoftFirst(w, r) ==
  IF Len(w.sp.active) >= maxActiveObjects THEN w
  ELSE LET ftue == w.sp.ftueMode /\ w.sp.ftueRemaining > 0
           cfg  == IF w.sp.failSoftActive
                   THEN rollRandomObject(FAIL_SOFT_WEIGHT_OVERRIDE, r)
                   ELSE IF ftue THEN FTUE_OBJECT_CONFIG
                        ELSE rollRandomObject(NoOverride, r)
       IN Spawner_spawnObject(w, cfg, ftue /\ ~w.sp.failSoftActive)

\* as Spawner_trySpawn, but fail-soft rolls on the catalogue weights
Spawner_trySpawn_NoOverride(w, r) ==
  IF Len(w.sp.active) >= maxActiveObjects THEN w
  ELSE LET ftue == w.sp.ftueMode /\ w.sp.ftueRemaining > 0
           cfg  == IF ftue THEN FTUE_OBJECT_CONFIG
                   ELSE rollRandomObject(NoOverride, r)
       IN Spawner_spawnObject(w, cfg, ftue)

Spawner_trySpawn(w, r) ==
  IF Len(w.sp.active) >= maxActiveObjects THEN w
  ELSE LET ftue == w.sp.ftueMode /\ w.sp.ftueRemaining > 0
           cfg  == IF ftue THEN FTUE_OBJECT_CONFIG
                   ELSE IF w.sp.failSoftActive
                        THEN rollRandomObject(FAIL_SOFT_WEIGHT_OVERRIDE, r)
                        ELSE rollRandomObject(NoOverride, r)
       IN Spawner_spawnObject(w, cfg, ftue)

Spawner_forceBonus(w) ==
  IF ~w.sp.isRunning THEN w
  ELSE Spawner_spawnObject(w, FTUE_OBJECT_CONFIG, FALSE)

\* EventBus.emit(FORCE_BONUS_SPAWN); source ("rhythm" or "daily") is logged only
EmitForceBonusSpawn(w, source) ==
  Spawner_forceBonus(Emit(w, <<"FORCE_BONUS_SPAWN", source>>))

SpawnDue(w, dt) ==
  (w.sp.spawnTimer + dt) * w.sp.spawnInterval.den >= w.sp.spawnInterval.num

\* as Spawner_update, but the rhythm counter keeps running after it fires
Spawner_update_NoReset(w, dt, r) ==
  IF ~w.sp.isRunning THEN w
  ELSE LET t  == w.sp.timeSinceLastCatch + dt
           w1 == IF t >= REWARD_RHYTHM_INTERVAL_S * 1000
                 THEN EmitForceBonusSpawn([w EXCEPT !.sp.timeSinceLastCatch = t], "rhythm")
                 ELSE [w EXCEPT !.sp.timeSinceLastCatch = t]
       IN IF SpawnDue(w1, dt)
          THEN Spawner_trySpawn([w1 EXCEPT !.sp.spawnTimer = 0], r)
          ELSE [w1 EXCEPT !.sp.spawnTimer = @ + dt]

Spawner_update(w, dt, r) ==
  IF ~w.sp.isRunning THEN w
  ELSE LET t  == w.sp.timeSinceLastCatch + dt
           w1 == IF t >= REWARD_RHYTHM_INTERVAL_S * 1000
                 THEN EmitForceBonusSpawn([w EXCEPT !.sp.timeSinceLastCatch = 0], "rhythm")
                 ELSE [w EXCEPT !.sp.timeSinceLastCatch = t]
       IN IF SpawnDue(w1, dt)
          THEN Spawner_trySpawn([w1 EXCEPT !.sp.spawnTimer = 0], r)
          ELSE [w1 EXCEPT !.sp.spawnTimer = @ + dt]

RECURSIVE Without(_, _)
Without(seq, x) ==
  IF seq = <<>> THEN <<>>
  ELSE IF Head(seq) = x THEN Tail(seq)
       ELSE <<Head(seq)>> \o Without(Tail(seq), x)

\* _removeController: splices the first occurrence out of the active list
Spawner_removeController(w, n) == [w EXCEPT !.sp.active = Without(@, n)]

\* as Spawner_onHookCatch, but the mode is kept when the counter reaches zero
Spawner_onHookCatch_NoExit(w, n) ==
  LET obj == w.nodes[n].data
      w1  == [w EXCEPT !.sp.timeSinceLastCatch = 0]
      w2  == IF w1.sp.ftueMode /\ w1.sp.ftueRemaining > 0 /\ obj.type = "BONUS"
             THEN LET rem == w1.sp.ftueRemaining - 1 IN
                  FTUE_onFTUECatch(
                    Emit([w1 EXCEPT !.sp.ftueRemaining = rem], <<"FTUE_CATCH", rem>>),
                    rem)
             ELSE w1
  IN Spawner_removeController(w2, n)

Spawner_onHookCatch(w, n) ==
  LET obj == w.nodes[n].data
      w1  == [w EXCEPT !.sp.timeSinceLastCatch = 0]
      w2  == IF w1.sp.ftueMode /\ w1.sp.ftueRemaining > 0 /\ obj.type = "BONUS"
             THEN LET rem == w1.sp.ftueRemaining - 1 IN
                  FTUE_onFTUECatch(
                    Emit([w1 EXCEPT !.sp.ftueRemaining = rem,
                                    !.sp.ftueMode = IF rem = 0 THEN FALSE ELSE @],
                         <<"FTUE_CATCH", rem>>),
                    rem)
             ELSE w1
  IN Spawner_removeController(w2, n)

\* as Spawner_onSelfDespawn, but the exit counts as a miss
Spawner_onSelfDespawn_Penalty(w0, n) ==
  LET w   == GM_onHookMiss(Emit(w0, <<"HOOK_MISS">>))
      w1  == Spawner_removeController(w, n)
      id  == w.nodes[n].data.configId
      cfg == IF id \in ConfigIds THEN getObjectConfig(id) ELSE OBJECT_DATABASE[1]
      key == poolForConfig(w1, cfg)
  IN IF key = "none" THEN w1 ELSE Pool_release(w1, key, n)

\* as Spawner_onSelfDespawn, but the controller stays on the active list
Spawner_onSelfDespawn_KeepActive(w, n) ==
  LET id  == w.nodes[n].data.configId
      cfg == IF id \in ConfigIds THEN getObjectConfig(id) ELSE OBJECT_DATABASE[1]
      key == poolForConfig(w, cfg)
  IN IF key = "none" THEN w ELSE Pool_release(w, key, n)

Spawner_onSelfDespawn(w, n) ==
  LET w1  == Spawner_removeController(w, n)
      id  == w.nodes[n].data.configId
      cfg == IF id \in ConfigIds THEN getObjectConfig(id) ELSE OBJECT_DATABASE[1]
      key == poolForConfig(w1, cfg)
  IN IF key = "none" THEN w1 ELSE Pool_release(w1, key, n)

RECURSIVE despawnEach(_, _)
despawnEach(w, ctrls) ==
  IF ctrls = <<>> THEN w
  ELSE LET n   == Head(ctrls)
           w1  == [w EXCEPT !.nodes[n].ctrlActive = FALSE]
           id  == w.nodes[n].data.configId
           key == IF id \in ConfigIds THEN poolForConfig(w1, getObjectConfig(id))
                  ELSE "none"
       IN despawnEach(IF key = "none" THEN w1 ELSE Pool_release(w1, key, n),
                      Tail(ctrls))

Spawner_despawnAll(w) ==
  [despawnEach(w, w.sp.active) EXCEPT !.sp.active = <<>>]

\* as Spawner_stop, but the active instances are left as they are
Spawner_stop_NoDespawn(w) == [w EXCEPT !.sp.isRunning = FALSE]

Spawner_stop(w) == Spawner_despawnAll([w EXCEPT !.sp.isRunning = FALSE])

\* ------------------------------------------------------------------------
\* HookController.  swingSpeed100 is the swing speed in hundredths of a
\* degree per second, angle in 1e-5 degree (speed100 x ms), lineLength in
\* milli-pixels (pixels per second x ms).
\* ------------------------------------------------------------------------

HookInit ==
  [hookState |-> "SWINGING", angle |-> 0, angularVelSign |-> 1,
   lineLength |-> HOOK_LINE_MIN_LENGTH * 1000, inputEnabled |-> FALSE,
   caught |-> NoNode, swingSpeed100 |-> hookBaseSpeed * 100,
   tip |-> [length |-> HOOK_LINE_MIN_LENGTH * 1000, angle |-> 0]]

maxAngle == hookMaxAngleDeg * 100000

Hook_setInputEnabled(w, enabled) == [w EXCEPT !.hook.inputEnabled = enabled]

\* _applyTransform: hook.tip is the position of hookTipNode, as the line
\* length and the angle it was last computed from
Hook_applyTransform(w) ==
  [w EXCEPT !.hook.tip = [length |-> w.hook.lineLength, angle |-> w.hook.angle]]

Hook_reset(w) ==
  Hook_applyTransform(
    [w EXCEPT !.hook.hookState = "SWINGING",
              !.hook.angle = 0,
              !.hook.angularVelSign = 1,
              !.hook.lineLength = HOOK_LINE_MIN_LENGTH * 1000,
              !.hook.caught = NoNode])

Hook_updateSwing(w, dt) ==
  LET a == w.hook.angle + w.hook.swingSpeed100 * w.hook.angularVelSign * dt IN
  IF a >= maxAngle
  THEN [w EXCEPT !.hook.angle = maxAngle, !.hook.angularVelSign = -1]
  ELSE IF a <= -maxAngle
       THEN [w EXCEPT !.hook.angle = -maxAngle, !.hook.angularVelSign = 1]
       ELSE [w EXCEPT !.hook.angle = a]

\* EventBus.emit(HOOK_CATCH): GameManager._onHookCatch, then
\* ObjectSpawner._onHookCatch (listeners in registration order)
EmitHookCatch(w, n) ==
  LET obj == w.nodes[n].data IN
  Spawner_onHookCatch(GM_onHookCatch(Emit(w, <<"HOOK_CATCH", n, obj.configId>>), obj), n)

\* EventBus.emit(HOOK_MISS): GameManager._onHookMiss (ObjectSpawner's is empty)
EmitHookMiss(w) == GM_onHookMiss(Emit(w, <<"HOOK_MISS">>))

Hook_onCatch(w, n) ==
  EmitHookCatch([w EXCEPT !.hook.caught = n,
                          !.hook.hookState = "CAUGHT",
                          !.nodes[n].ctrlActive = FALSE,
                          !.nodes[n].caughtCount = @ + 1], n)

\* The nodes _checkCollisions measures: the children of SpawnArea that are
\* active and whose controller has data
Candidates(w) ==
  {n \in 1..Len(w.nodes) :
     /\ w.nodes[n].active
     /\ ~w.nodes[n].destroyed
     /\ w.nodes[n].data # NoData}

\* hit: the first candidate within its catch radius of tipWorld, or NoNode.
\* The trace records the tip position the distances are measured from
\* (tipTested, not an EventBus event)
Hook_checkCollisions(w0, hit) ==
  LET w == Emit(w0, <<"tipTested", w0.hook.tip.length, w0.hook.tip.angle>>) IN
  IF hit # NoNode /\ hit \in Candidates(w) THEN Hook_onCatch(w, hit) ELSE w

Hook_startRetract(w, withCatch) ==
  IF ~withCatch /\ w.hook.hookState # "CAUGHT"
  THEN [w EXCEPT !.hook.hookState = "RETRACTING"]
  ELSE w

Hook_updateDrop(w, dt, hit) ==
  LET len == w.hook.lineLength + HOOK_DROP_SPEED * dt IN
  IF len >= HOOK_LINE_MAX_LENGTH * 1000
  THEN Hook_startRetract([w EXCEPT !.hook.lineLength = HOOK_LINE_MAX_LENGTH * 1000], FALSE)
  ELSE Hook_checkCollisions([w EXCEPT !.hook.lineLength = len], hit)

Hook_onRetractComplete(w) ==
  LET w1 == IF w.hook.hookState = "CAUGHT" THEN w ELSE EmitHookMiss(w) IN
  [w1 EXCEPT !.hook.caught = NoNode, !.hook.hookState = "SWINGING"]

pullWeight10(w) ==
  IF w.hook.caught # NoNode
  THEN LET id == w.nodes[w.hook.caught].data.configId IN
       IF id \in DOMAIN OBJECT_PULL_WEIGHT THEN OBJECT_PULL_WEIGHT[id] ELSE 10
  ELSE 10

Hook_updateRetract(w, dt) ==
  LET len == w.hook.lineLength - (HOOK_RETRACT_BASE * dt * 10) \div pullWeight10(w) IN
  IF len <= HOOK_LINE_MIN_LENGTH * 1000
  THEN Hook_onRetractComplete([w EXCEPT !.hook.lineLength = HOOK_LINE_MIN_LENGTH * 1000])
  ELSE [w EXCEPT !.hook.lineLength = len]

Hook_update(w, dt, hit) ==
  IF ~w.hook.inputEnabled THEN w
  ELSE Hook_applyTransform(
         CASE w.hook.hookState = "SWINGING" -> Hook_updateSwing(w, dt)
           [] w.hook.hookState = "DROPPING" -> Hook_updateDrop(w, dt, hit)
           [] OTHER                         -> Hook_updateRetract(w, dt))

\* as Hook_onTouchStart, but a busy hook drops again
Hook_onTouchStart_NoBusy(w) ==
  IF ~w.hook.inputEnabled THEN w
  ELSE [w EXCEPT !.hook.hookState = "DROPPING"]

Hook_onTouchStart(w) ==
  IF ~w.hook.inputEnabled THEN w
  ELSE IF w.hook.hookState # "SWINGING" THEN w
       ELSE [w EXCEPT !.hook.hookState = "DROPPING"]

\* ------------------------------------------------------------------------
\* ScoreManager.finalise
\* ------------------------------------------------------------------------

NEAR_MISS_RATIO_PCT == 5

Score_finalise(w) ==
  LET s        == w.score
      prevBest == w.storage.highScore
      w1 == IF ~s.isNewHighScore /\ prevBest > 0
               /\ s.currentScore * 100 >= (100 - NEAR_MISS_RATIO_PCT) * prevBest
            THEN Emit(w, <<"NEAR_MISS", s.currentScore, prevBest>>)
            ELSE w
      w2 == IF s.isNewHighScore
            THEN [w1 EXCEPT !.storage.highScore = s.currentScore]
            ELSE w1
  IN [w2 EXCEPT !.gm.lastSessionResult =
        [currentScore    |-> s.currentScore,
         highScore       |-> Max(s.currentScore, prevBest),
         comboCount      |-> w.combo.comboCount,
         maxComboReached |-> w.combo.maxComboReached,
         objectsCaught   |-> s.objectsCaught,
         objectsMissed   |-> s.objectsMissed,
         isNewHighScore  |-> s.isNewHighScore]]

\* ------------------------------------------------------------------------
\* GameManager
\* ------------------------------------------------------------------------

NoResult ==
  [currentScore |-> -1, highScore |-> -1, comboCount |-> -1, maxComboReached |-> -1,
   objectsCaught |-> -1, objectsMissed |-> -1, isNewHighScore |-> FALSE]

totalTime == sessionDurationSeconds * 1000

Schedule(w, cb, delay) == [w EXCEPT !.sched = Append(@, [cb |-> cb, remaining |-> delay])]

RECURSIVE scheduleBonus(_, _, _)
scheduleBonus(w, i, count) ==
  IF i >= count THEN w
  ELSE scheduleBonus(Schedule(w, "bonus", BONUS_FIRST_DELAY_MS + i * BONUS_STEP_DELAY_MS),
                     i + 1, count)

GM_onEnterPlaying(w) ==
  LET w1 == Hook_setInputEnabled(Hook_reset([w EXCEPT !.gm.timeLeft = totalTime]), TRUE) IN
  IF w1.gm.pendingBonusSpawns > 0
  THEN [scheduleBonus(w1, 0, w1.gm.pendingBonusSpawns) EXCEPT !.gm.pendingBonusSpawns = 0]
  ELSE w1

GM_onEnterPaused(w) == Hook_setInputEnabled(w, FALSE)

GM_onEnterResult(w) ==
  LET w1 == Score_finalise(Spawner_stop(Hook_setInputEnabled(w, FALSE)))
      w2 == [w1 EXCEPT !.storage.totalGamesPlayed = @ + 1]
  IN Schedule(Emit(w2, <<"SESSION_END">>), "loadScene", RESULT_DELAY_MS)

\* _transitionTo for the states entered synchronously (LOADING is entered
\* once, from onLoad: see Init and the loading steps)
GM_transitionTo(w, next) ==
  LET w1 == FTUE_onStateChange(Emit([w EXCEPT !.gm.state = next],
                                    <<"GAME_STATE_CHANGE", w.gm.state, next>>),
                               next)
  IN CASE next = "PLAYING" -> GM_onEnterPlaying(w1)
       [] next = "PAUSED"  -> GM_onEnterPaused(w1)
       [] next = "RESULT"  -> GM_onEnterResult(w1)
       [] OTHER            -> w1

RECURSIVE bracketFrom(_, _, _)
bracketFrom(elapsed, i, newIdx) ==
  IF i > Len(DIFFICULTY_TIME_BRACKETS) THEN newIdx
  ELSE bracketFrom(elapsed, i + 1,
         IF elapsed >= DIFFICULTY_TIME_BRACKETS[i] * 1000 THEN i - 1 ELSE newIdx)

\* as GM_checkDifficultyRamp, but a bracket starts only after its start time
GM_checkDifficultyRamp_Strict(w) ==
  LET elapsed == totalTime - w.gm.timeLeft
      newIdx  == bracketFrom(elapsed - 1, 1, 0)
  IN IF newIdx # w.gm.diffIdx
     THEN LET diff == difficultyLevels[newIdx + 1] IN
          Hook_setSwingSpeed(
            Spawner_applyDifficulty([w EXCEPT !.gm.diffIdx = newIdx], diff),
            hookBaseSpeed * diff.hookSpeed100)
     ELSE w

GM_checkDifficultyRamp(w) ==
  LET elapsed == totalTime - w.gm.timeLeft
      newIdx  == bracketFrom(elapsed, 1, 0)
  IN IF newIdx # w.gm.diffIdx
     THEN LET diff == difficultyLevels[newIdx + 1] IN
          Hook_setSwingSpeed(
            Spawner_applyDifficulty([w EXCEPT !.gm.diffIdx = newIdx], diff),
            hookBaseSpeed * diff.hookSpeed100)
     ELSE w

GM_update(w, dt) ==
  IF w.gm.state # "PLAYING" THEN w
  ELSE LET t  == w.gm.timeLeft - dt
           w1 == Emit([w EXCEPT !.gm.timeLeft = t], <<"TIMER_TICK", Max(0, t)>>)
           w2 == GM_checkDifficultyRamp(w1)
       IN IF t <= 0 THEN GM_transitionTo(w2, "RESULT") ELSE w2

\* as GM_resume, but the current state is not checked
GM_resume_NoGuard(w) == GM_transitionTo(Hook_setInputEnabled(w, TRUE), "PLAYING")

GM_resume(w) ==
  IF w.gm.state # "PAUSED" THEN w
  ELSE GM_transitionTo(Hook_setInputEnabled(w, TRUE), "PLAYING")

\* as GM_pause, but the current state is not checked
GM_pause_NoGuard(w) == GM_transitionTo(w, "PAUSED")

GM_pause(w) ==
  IF w.gm.state # "PLAYING" THEN w
  ELSE GM_transitionTo(w, "PAUSED")

\* The tail of _onEnterLoading, after its awaits.  gm.playerData: the static
\* GameManager.playerData has been assigned; gm.subsystems: the instance
\* getters and the objectSpawner reference still lead to live components
\* (the optional calls are skipped otherwise)
GM_finishLoading(w) ==
  LET isFTUE == w.storage.totalGamesPlayed = 0
      w0 == [w EXCEPT !.gm.playerData = TRUE]
      w1 == IF w.gm.subsystems THEN Combo_reset(Score_init(w0)) ELSE w0
      w2 == IF w.gm.subsystems THEN Spawner_init(w1, isFTUE, difficultyLevels[1]) ELSE w1
      w3 == [w2 EXCEPT !.gm.pendingBonusSpawns = w.storage.pendingBonusSpawns,
                       !.storage.pendingBonusSpawns = 0,
                       !.gm.loading = "done"]
  IN Schedule(w3, "toPlaying", LOADING_DELAY_MS)

\* ------------------------------------------------------------------------
\* Scheduler (Component.scheduleOnce): the callbacks that are due fire at
\* the start of the frame, in the order they were scheduled
\* ------------------------------------------------------------------------

FireCallback(w, cb) ==
  CASE cb = "toPlaying" -> GM_transitionTo(w, "PLAYING")
    [] cb = "bonus"     -> IF w.gm.state = "PLAYING" THEN EmitForceBonusSpawn(w, "daily") ELSE w
    [] cb = "loadScene" -> [w EXCEPT !.gm.isValid = FALSE, !.sched = <<>>]
    [] OTHER            -> w

RECURSIVE runTimers(_, _, _)
runTimers(w, timers, dt) ==
  IF timers = <<>> \/ ~w.gm.isValid THEN w
  ELSE LET t == Head(timers) IN
       IF t.remaining - dt <= 0
       THEN runTimers(FireCallback(w, t.cb), Tail(timers), dt)
       ELSE runTimers([w EXCEPT !.sched = Append(@, [t EXCEPT !.remaining = @ - dt])],
                      Tail(timers), dt)

Scheduler_update(w, dt) == runTimers([w EXCEPT !.sched = <<>>], w.sched, dt)

\* ------------------------------------------------------------------------
\* SpawnedObjectController.update, as far as the scheduler sees it: a
\* first-time-user object that leaves the play field emits 'despawn'
\* ------------------------------------------------------------------------

ExitCandidates(w) ==
  {n \in 1..Len(w.nodes) :
     /\ w.nodes[n].active
     /\ w.nodes[n].ctrlActive
     /\ w.nodes[n].ftueMode}

\* The trace records node.emit('despawn') (despawn, not an EventBus event)
Object_update(w, exit) ==
  IF exit # NoNode /\ exit \in ExitCandidates(w)
  THEN Spawner_onSelfDespawn(Emit([w EXCEPT !.nodes[exit].ctrlActive = FALSE],
                                  <<"despawn", exit>>), exit)
  ELSE w

\* ------------------------------------------------------------------------
\* Initial state: the scene has loaded, every component's onLoad has run
\* and GameManager._onEnterLoading waits for the privacy consent.  What
\* persistent storage holds is an input.
\* ------------------------------------------------------------------------

GmInit ==
  [state |-> "LOADING", timeLeft |-> 0, diffIdx |-> 0, pendingBonusSpawns |-> 0,
   loading |-> "consent", isValid |-> TRUE, lastSessionResult |-> NoResult,
   playerData |-> FALSE, subsystems |-> TRUE]

\* Everything but the score and combo engines; prefabSets are the sets of
\* prefab slots that may be assigned in the Inspector.  The stored tutorial
\* flag is taken to be set exactly when a round has been played before, so
\* FTUEController.onLoad registers its listeners for a first round only.
InitScene(prefabSets, bests, games, bonuses) ==
  /\ gm = GmInit
  /\ hook = HookInit
  /\ sp = SpawnerInit
  /\ pools = <<>>
  /\ nodes = <<>>
  /\ sched = <<>>
  /\ storage \in [highScore : bests, totalGamesPlayed : games,
                  pendingBonusSpawns : bonuses]
  /\ ev = <<>>
  /\ env \in [prefabs : prefabSets, taps : {0}, pauses : {0}, frames : {0}, dt : {0},
               speedR : {0}, laneR : {0}]
  /\ ftueCtrl = [enabled |-> storage.totalGamesPlayed = 0, active |-> FALSE]
  /\ ad = [adState |-> "LOADING", pendingResolve |-> FALSE, showPromise |-> FALSE,
           displayed |-> FALSE, shows |-> 0, errors |-> 0,
           resolved |-> <<>>, emitted |-> <<>>]

InitRest(bests, games, bonuses) == InitScene({PoolKeys}, bests, games, bonuses)

InitWith(bests, games, bonuses) ==
  /\ InitRest(bests, games, bonuses)
  /\ score = ScoreInit(0)
  /\ combo = ComboInit

\* A step leads to world w
Becomes(w) ==
  \E x \in {w} :
    /\ gm' = x.gm
    /\ score' = x.score
    /\ combo' = x.combo
    /\ hook' = x.hook
    /\ sp' = x.sp
    /\ pools' = x.pools
    /\ nodes' = x.nodes
    /\ sched' = x.sched
    /\ storage' = x.storage
    /\ ev' = x.ev
    /\ env' = x.env
    /\ ftueCtrl' = x.ftueCtrl
    /\ UNCHANGED <<draw, ad>>

\* The world at the start of a step: no event emitted yet
Start == [World EXCEPT !.ev = <<>>]

\* ------------------------------------------------------------------------
\* Steps
\* ------------------------------------------------------------------------

\* PrivacyManager.ensureConsent() resolves; _onEnterLoading returns at once
\* when the component is no longer valid
ConsentResolved(granted) ==
  /\ gm.loading = "consent"
  /\ Becomes(IF ~gm.isValid THEN [Start EXCEPT !.gm.loading = "abandoned"]
             ELSE IF granted THEN [Start EXCEPT !.gm.loading = "userinfo"]
                  ELSE GM_finishLoading(Start))

\* WeChatService.getUserInfo() resolves or rejects: the validity test is
\* inside the try block, so that a rejection goes through the empty catch
\* to the rest of _onEnterLoading
UserInfoResolved ==
  /\ gm.loading = "userinfo"
  /\ \E rejected \in BOOLEAN :
       Becomes(IF ~rejected /\ ~gm.isValid THEN [Start EXCEPT !.gm.loading = "abandoned"]
               ELSE GM_finishLoading(Start))

\* The GameManager's node is destroyed while _onEnterLoading awaits (the
\* scene is unloaded, or the node alone is destroyed): its scheduled
\* callbacks are dropped; alive tells whether the components it drives
\* outlive it
Unload ==
  /\ gm.isValid
  /\ gm.loading \in {"consent", "userinfo"}
  /\ \E alive \in BOOLEAN :
       Becomes([Start EXCEPT !.gm.isValid = FALSE, !.gm.subsystems = alive,
                             !.sched = <<>>, !.env.dt = 0])

WillCheckCollisions(w, dt) ==
  /\ w.hook.inputEnabled
  /\ w.hook.hookState = "DROPPING"
  /\ w.hook.lineLength + HOOK_DROP_SPEED * dt < HOOK_LINE_MAX_LENGTH * 1000

HitSet(w, dt) == IF WillCheckCollisions(w, dt) THEN Candidates(w) \cup {NoNode} ELSE {NoNode}

WillRoll(w, dt) ==
  /\ w.sp.isRunning
  /\ SpawnDue(w, dt)
  /\ ~(w.sp.ftueMode /\ w.sp.ftueRemaining > 0)

RollSet(w, dt, rolls) == IF WillRoll(w, dt) THEN rolls ELSE {0}

\* One frame of the engine: due scheduled callbacks, then update(dt) of
\* GameManager, HookController, ObjectSpawner and the spawned objects.
\* env.frames counts the frames since loading completed, env.dt is the
\* frame's dt.
FrameFrom(w0, dt, rolls, exits) ==
  \E w1 \in {Scheduler_update(w0, dt)} :
  \E w2 \in {IF w1.gm.isValid THEN GM_update(w1, dt) ELSE w1} :
  \E hit \in HitSet(w2, dt) :
  \E w3 \in {IF w2.gm.isValid THEN Hook_update(w2, dt, hit) ELSE w2} :
  \E r \in RollSet(w3, dt, rolls) :
  \E w4 \in {IF w3.gm.isValid THEN Spawner_update(w3, dt, r) ELSE w3} :
  \E exit \in (IF exits THEN ExitCandidates(w4) ELSE {}) \cup {NoNode} :
    Becomes(Object_update(w4, exit))

Frame(dt, rolls, exits, maxFrames) ==
  /\ gm.isValid
  /\ env.frames < maxFrames
  /\ FrameFrom([Start EXCEPT !.env.frames = IF gm.loading = "done" THEN @ + 1 ELSE @,
                             !.env.dt = dt],
               dt, rolls, exits)

\* A frame in which Math.random() returns speedR for the speed and laneR
\* for the lane of the instances it spawns
FrameRandom(dt, rolls, speedRs, laneRs, maxFrames) ==
  /\ gm.isValid
  /\ env.frames < maxFrames
  /\ \E sr \in speedRs, lr \in laneRs :
       FrameFrom([Start EXCEPT !.env.frames = IF gm.loading = "done" THEN @ + 1 ELSE @,
                               !.env.dt = dt, !.env.speedR = sr, !.env.laneR = lr],
                 dt, rolls, FALSE)

\* A frame, not counted
Tick(dt) ==
  /\ gm.isValid
  /\ FrameFrom([Start EXCEPT !.env.dt = dt], dt, {0}, FALSE)

\* A touch on the screen while the hook's listener is registered; with
\* onlySwinging the player touches only while the hook swings
Tap(maxTaps, onlySwinging) ==
  /\ gm.isValid
  /\ hook.inputEnabled
  /\ onlySwinging => hook.hookState = "SWINGING"
  /\ env.taps < maxTaps
  /\ Becomes(Hook_onTouchStart([Start EXCEPT !.env.taps = @ + 1, !.env.dt = 0]))

\* A touch on the screen at any moment: TOUCH_START reaches _onTouchStart
\* (which returns at once when input is disabled)
Touch(maxTaps) ==
  /\ gm.isValid
  /\ env.taps < maxTaps
  /\ Becomes(Hook_onTouchStart(Emit([Start EXCEPT !.env.taps = @ + 1, !.env.dt = 0],
                                     <<"TOUCH_START">>)))

\* BtnPause
Pause(maxPauses) ==
  /\ gm.isValid
  /\ env.pauses < maxPauses
  /\ Becomes(GM_pause([Start EXCEPT !.env.pauses = @ + 1, !.env.dt = 0]))

\* The pause panel's resume button
Resume ==
  /\ gm.isValid
  /\ Becomes(GM_resume([Start EXCEPT !.env.dt = 0]))

\* BtnPause, not counted
PauseNow ==
  /\ gm.isValid
  /\ Becomes(GM_pause([Start EXCEPT !.env.dt = 0]))

\* ------------------------------------------------------------------------
\* Bounds and specifications
\* ------------------------------------------------------------------------

\* frame lengths, ms
DTs == {1000}

\* values of Math.random(), in hundredths: 0 selects common_small; 85
\* selects obstacle_rock from the baseline table and bonus_gold from the
\* fail-soft table
Rolls == {0, 85}

MaxFramesCatch == 12
MaxTaps == 3

\* Catching: a returning player (no first-time-user mode), no stored best,
\* who touches only while the hook swings and never pauses
Init == InitWith({0}, {5}, {0}) /\ draw = NoDraw

Next ==
  \/ \E g \in BOOLEAN : ConsentResolved(g)
  \/ UserInfoResolved
  \/ \E dt \in DTs : Frame(dt, Rolls, FALSE, MaxFramesCatch)
  \/ Tap(MaxTaps, TRUE)

Spec == Init /\ [][Next]_vars

\* Session: the same player, who never touches the screen but pauses and
\* resumes
MaxFramesSession == 48
MaxPauses == 2

NextSession ==
  \/ \E g \in BOOLEAN : ConsentResolved(g)
  \/ UserInfoResolved
  \/ \E dt \in DTs : Frame(dt, {0}, FALSE, MaxFramesSession)
  \/ Pause(MaxPauses)
  \/ Resume

SpecSession == Init /\ [][NextSession]_vars

\* Spawning: first-time and returning players, with and without daily
\* bonus spawns pending
MaxFramesSpawn == 19
MaxTapsSpawn == 1
MaxBonus == 1

InitSpawn == InitWith({0}, {0, 5}, 0..MaxBonus) /\ draw = NoDraw

NextSpawn ==
  \/ \E g \in BOOLEAN : ConsentResolved(g)
  \/ UserInfoResolved
  \/ \E dt \in DTs : Frame(dt, {0}, FALSE, MaxFramesSpawn)
  \/ Tap(MaxTapsSpawn, TRUE)

SpecSpawn == InitSpawn /\ [][NextSpawn]_vars

\* Weighted draw on its own: the catalogue weights with one category
\* overridden to 0, or the fail-soft table, and every value of Math.random()
\* in hundredths
DrawRolls == 0..99

DrawTables == {[id \in {z} |-> 0] : z \in ConfigIds} \cup {FAIL_SOFT_WEIGHT_OVERRIDE}

InitDraw ==
  /\ InitWith({0}, {5}, {0})
  /\ draw \in [table : DrawTables, r : DrawRolls, result : {"none"}]

RollOnce ==
  /\ draw.result = "none"
  /\ draw' = [draw EXCEPT !.result = rollRandomObject(draw.table, draw.r).id]
  /\ UNCHANGED <<gm, score, combo, hook, sp, pools, nodes, sched, storage, ev, env,
                 ftueCtrl, ad>>

NextDraw == RollOnce

SpecDraw == InitDraw /\ [][NextDraw]_vars

\* Long pause: the player pauses once and leaves the game paused for
\* minutes
MaxFramesPool == 230
MaxPausesPool == 1

NextPool ==
  \/ \E g \in BOOLEAN : ConsentResolved(g)
  \/ UserInfoResolved
  \/ \E dt \in DTs : Frame(dt, {0}, FALSE, MaxFramesPool)
  \/ Pause(MaxPausesPool)
  \/ Resume

SpecPool == Init /\ [][NextPool]_vars

\* Scoring on its own: addScore called with instances of any signed score
\* value, at every combo tier, from several running scores
MaxAdds == 2

ScoreValues == {OBJECT_DATABASE[i].baseScoreValue : i \in 1..Len(OBJECT_DATABASE)} \cup {0}

StartScores == {0, 10, 20, 45, 100}

InitScore ==
  /\ InitRest({0}, {5}, {0})
  /\ score \in {[ScoreInit(0) EXCEPT !.currentScore = c] : c \in StartScores}
  /\ combo \in {[ComboInit EXCEPT !.currentTier = t,
                                  !.comboCount = comboTiers[t].minCombo,
                                  !.maxComboReached = comboTiers[t].minCombo] :
                  t \in 1..Len(comboTiers)}
  /\ draw = NoDraw

AddScoreOnce ==
  /\ score.objectsCaught + score.objectsMissed < MaxAdds
  /\ \E v \in ScoreValues :
       Becomes(Score_addScore(Start, [configId |-> "none", type |-> "NONE", scoreValue |-> v]))

NextScore == AddScoreOnce

SpecScore == InitScore /\ [][NextScore]_vars

\* Rounds without end of play: no prefab is assigned, so that nothing is
\* ever spawned; frames, pauses and resumes are not counted.  Touches are
\* delivered between frames, so a pause follows a frame; frames keep coming
\* and a paused session is resumed.
InitLive == InitScene({{}}, {0}, {5}, {0}) /\ score = ScoreInit(0) /\ combo = ComboInit /\ draw = NoDraw

AnyTick == \E dt \in DTs : Tick(dt)

PauseAfterFrame == env.dt > 0 /\ PauseNow

PausedResume == gm.state = "PAUSED" /\ Resume

NextLive ==
  \/ \E g \in BOOLEAN : ConsentResolved(g)
  \/ UserInfoResolved
  \/ AnyTick
  \/ PauseAfterFrame
  \/ PausedResume

SpecLive ==
  /\ InitLive
  /\ [][NextLive]_vars
  /\ WF_vars(AnyTick)
  /\ WF_vars(PausedResume)

\* Hook and pause: a returning player who drops the hook and may pause and
\* resume at any moment of the cycle
MaxFramesHook == 10
MaxTapsHook == 2
MaxPausesHook == 1

NextHook ==
  \/ \E g \in BOOLEAN : ConsentResolved(g)
  \/ UserInfoResolved
  \/ \E dt \in DTs : Frame(dt, {0}, FALSE, MaxFramesHook)
  \/ Tap(MaxTapsHook, TRUE)
  \/ Pause(MaxPausesHook)
  \/ Resume

SpecHook == Init /\ [][NextHook]_vars

\* Hook, pause and touches at any moment: as above, but the player also
\* touches the screen while the hook is busy or the session is not in play
NextTouch ==
  \/ \E g \in BOOLEAN : ConsentResolved(g)
  \/ UserInfoResolved
  \/ \E dt \in DTs : Frame(dt, {0}, FALSE, MaxFramesHook)
  \/ Touch(MaxTapsHook)
  \/ Pause(MaxPausesHook)
  \/ Resume

SpecTouch == Init /\ [][NextTouch]_vars

\* Loading with the scene torn down under it: the GameManager may be
\* destroyed while the consent popup or the profile lookup is outstanding
MaxFramesLoad == 6

InitLoad == InitWith({0, 10}, {0, 5}, {0, 1}) /\ draw = NoDraw

NextLoad ==
  \/ \E g \in BOOLEAN : ConsentResolved(g)
  \/ UserInfoResolved
  \/ Unload
  \/ \E dt \in DTs : Frame(dt, {0}, FALSE, MaxFramesLoad)

SpecLoad == InitLoad /\ [][NextLoad]_vars

\* Catching with one prefab slot left unassigned in the Inspector: no pool
\* is built for obstacle_rock, which the roll still selects
InitMissing ==
  /\ InitScene({PoolKeys \ {"obstacle_rock"}}, {0}, {5}, {0})
  /\ score = ScoreInit(0) /\ combo = ComboInit /\ draw = NoDraw

SpecMissing == InitMissing /\ [][Next]_vars

\* A first-time player's round: first-time-user mode is on from the start,
\* the player may miss twice (fail-soft) or catch, and the random speed
\* and lane of a spawn take their extreme values
MaxFramesFtue == 19
MaxTapsFtue == 3

NextFtue ==
  \/ \E g \in BOOLEAN : ConsentResolved(g)
  \/ UserInfoResolved
  \/ \E dt \in DTs : FrameRandom(dt, Rolls, {0, 99}, {0, 99}, MaxFramesFtue)
  \/ Tap(MaxTapsFtue, TRUE)

SpecFtue == InitWith({0}, {0}, {0}) /\ draw = NoDraw /\ [][NextFtue]_vars

\* Missing into fail-soft: a returning player whose drops may miss, with
\* rolls on both sides of the hazard's place in either weight table
MaxFramesSoft == 12
MaxTapsSoft == 2

NextSoft ==
  \/ \E g \in BOOLEAN : ConsentResolved(g)
  \/ UserInfoResolved
  \/ \E dt \in DTs : Frame(dt, {0, 85, 98, 99}, FALSE, MaxFramesSoft)
  \/ Tap(MaxTapsSoft, TRUE)

SpecSoft == Init /\ [][NextSoft]_vars

\* A first-time player's whole round, in which the tutorial objects may
\* leave the play field during the first MaxExitFrames frames
MaxFramesExit == 48
MaxExitFrames == 7
MaxTapsExit == 1

NextExit ==
  \/ \E g \in BOOLEAN : ConsentResolved(g)
  \/ UserInfoResolved
  \/ \E dt \in DTs : Frame(dt, {0}, TRUE, MaxExitFrames)
  \/ \E dt \in DTs : Frame(dt, {0}, FALSE, MaxFramesExit)
  \/ Tap(MaxTapsExit, TRUE)

SpecExit == InitWith({0}, {0}, {0}) /\ draw = NoDraw /\ [][NextExit]_vars

\* ------------------------------------------------------------------------
\* AdManager, rewarded video, in the WeChat environment.  ad is the state
\* after onLoad: the ad object is created, its callbacks are registered and
\* load() is under way.  pendingResolve: _pendingResolve is set;
\* showPromise: a promise returned by show() is not yet settled; displayed:
\* show() was fulfilled and the closing of the ad is still to be reported.
\* resolved and emitted are history: the results the promise of the last
\* show that entered SHOWING was resolved with, and the reward events
\* emitted since that show.  The platform fires its callbacks in any order.
\* ------------------------------------------------------------------------
MaxShows == 2
MaxAdErrors == 2

Ad_enterCooldown(a) == [a EXCEPT !.adState = "COOLING"]

Ad_loadRewardedAd(a) == [a EXCEPT !.adState = "LOADING"]

Ad_resolvePending(a, result) ==
  [a EXCEPT !.adState = IF @ = "SHOWING" THEN "UNLOADED" ELSE @,
            !.pendingResolve = FALSE,
            !.resolved = IF a.pendingResolve THEN Append(@, result) ELSE @,
            !.emitted = Append(@, IF result = "GRANTED" THEN "AD_REWARD_GRANTED"
                                  ELSE "AD_REWARD_DENIED")]

\* the player taps an ad button: showRewardedAd()
ShowRewardedAd ==
  /\ ad.shows < MaxShows
  /\ ad' = IF ad.adState # "READY" THEN ad
           ELSE [ad EXCEPT !.pendingResolve = TRUE, !.adState = "SHOWING",
                           !.showPromise = TRUE,
                           !.shows = @ + 1, !.resolved = <<>>, !.emitted = <<>>]
  /\ UNCHANGED <<gm, score, combo, hook, sp, pools, nodes, sched, storage, ev, env,
                 draw, ftueCtrl>>

\* the promise of show() is fulfilled (the ad is on screen) or rejected
ShowSettled ==
  /\ ad.showPromise
  /\ \E rejected \in BOOLEAN :
       ad' = IF rejected
             THEN Ad_resolvePending([ad EXCEPT !.showPromise = FALSE], "UNAVAILABLE")
             ELSE [ad EXCEPT !.showPromise = FALSE, !.displayed = TRUE]
  /\ UNCHANGED <<gm, score, combo, hook, sp, pools, nodes, sched, storage, ev, env,
                 draw, ftueCtrl>>

\* the callback registered with onLoad
AdLoaded ==
  /\ ad.adState = "LOADING"
  /\ ad' = [ad EXCEPT !.adState = "READY"]
  /\ UNCHANGED <<gm, score, combo, hook, sp, pools, nodes, sched, storage, ev, env,
                 draw, ftueCtrl>>

\* the callback registered with onError
AdError ==
  /\ ad.errors < MaxAdErrors
  /\ ad' = Ad_enterCooldown(
             IF ad.adState = "SHOWING"
             THEN Ad_resolvePending([ad EXCEPT !.errors = @ + 1], "UNAVAILABLE")
             ELSE [ad EXCEPT !.errors = @ + 1])
  /\ UNCHANGED <<gm, score, combo, hook, sp, pools, nodes, sched, storage, ev, env,
                 draw, ftueCtrl>>

\* the callback registered with onClose
AdClose ==
  /\ ad.displayed
  /\ \E isEnded \in BOOLEAN :
       ad' = Ad_loadRewardedAd(
               [Ad_resolvePending([ad EXCEPT !.displayed = FALSE],
                                  IF isEnded THEN "GRANTED" ELSE "SKIPPED")
                  EXCEPT !.adState = "UNLOADED"])
  /\ UNCHANGED <<gm, score, combo, hook, sp, pools, nodes, sched, storage, ev, env,
                 draw, ftueCtrl>>

\* update(dt) in the frame in which the cooldown runs out
AdCooldownOver ==
  /\ ad.adState = "COOLING"
  /\ ad' = Ad_loadRewardedAd([ad EXCEPT !.adState = "UNLOADED"])
  /\ UNCHANGED <<gm, score, combo, hook, sp, pools, nodes, sched, storage, ev, env,
                 draw, ftueCtrl>>

NextAd ==
  \/ ShowRewardedAd
  \/ ShowSettled
  \/ AdLoaded
  \/ AdError
  \/ AdClose
  \/ AdCooldownOver

SpecAd == Init /\ [][NextAd]_vars

\* The combo engine on its own: catches and misses in any order, up to
\* streaks longer than the last tier's threshold
MaxCombo == 14
MaxFailures == 3

ComboCatch ==
  /\ combo.comboCount < MaxCombo
  /\ Becomes(Combo_onSuccessfulCatch(Start))

ComboMiss ==
  /\ combo.consecutiveFailures < MaxFailures
  /\ Becomes(Combo_onMiss(Start))

NextCombo == ComboCatch \/ ComboMiss

SpecCombo == Init /\ [][NextCombo]_vars

\* Whole rounds seen from the score: the hook and the positions of the
\* instances are left out, and HOOK_CATCH reaches GameManager for an
\* instance of any of a few categories at any moment of play, from several
\* stored bests
MaxFramesBest == 48
MaxCatches == 4

BestScores == {0, 10, 175}

\* HookController emits HOOK_CATCH for an instance of category id, in any
\* session state (the handler tests for PLAYING itself)
CatchEvent(maxCatches, ids) ==
  /\ gm.isValid
  /\ score.objectsCaught + score.objectsMissed < maxCatches
  /\ \E id \in ids :
       LET cfg == getObjectConfig(id)
           obj == [configId |-> cfg.id, type |-> cfg.type, scoreValue |-> cfg.baseScoreValue]
       IN Becomes(GM_onHookCatch(Emit([Start EXCEPT !.env.dt = 0],
                                      <<"HOOK_CATCH", NoNode, cfg.id>>), obj))

\* HookController emits HOOK_MISS, in any session state
MissEvent(maxCatches) ==
  /\ gm.isValid
  /\ score.objectsCaught + score.objectsMissed < maxCatches
  /\ Becomes(EmitHookMiss([Start EXCEPT !.env.dt = 0]))

InitBest == InitWith(BestScores, {5}, {0}) /\ draw = NoDraw

NextBest ==
  \/ \E g \in BOOLEAN : ConsentResolved(g)
  \/ UserInfoResolved
  \/ \E dt \in DTs : Frame(dt, {0}, FALSE, MaxFramesBest)
  \/ \E id \in {"common_small", "special_star", "obstacle_rock"} : CatchEvent(MaxCatches, {id})
  \/ MissEvent(MaxCatches)
  \/ gm.state = "RESULT" /\ Pause(MaxPausesHook)
  \/ gm.state = "RESULT" /\ Resume

SpecBest == InitBest /\ [][NextBest]_vars

\* ------------------------------------------------------------------------
\* Properties
\* ------------------------------------------------------------------------

\* positions in the trace of the last step that hold an event of this kind
EvOf(kind) == {i \in 1..Len(ev) : ev[i][1] = kind}

\* C1: for every sequence of catches (hazards included, at any multiplier)
\* and misses, the running score is never negative.
C1_ScoreFloor == score.currentScore >= 0

\* a hazard caught at multiplier 1.5 (delta -45) left the score at 0
C1_Witness ==
  \E i \in EvOf("SCORE_UPDATED") : ev[i][3] = -45 /\ ev[i][2] = 0 /\ score.currentScore = 0

\* C2: after the orchestrator has handled a HOOK_MISS, or a HOOK_CATCH of the
\* hazard category, the combo count is 0 and the multiplier is the baseline 1.
C2_ComboResetOnMissOrHazard ==
  \A i \in EvOf("HOOK_MISS") \cup {j \in EvOf("HOOK_CATCH") : ev[j][3] = "obstacle_rock"} :
    combo.comboCount = 0 /\ comboTiers[combo.currentTier].mult2 = 2

\* C5: no instance is caught twice: HOOK_CATCH is emitted at most once for a
\* node between two acquisitions of it from its pool.
C5_NoDoubleCatch == \A n \in 1..Len(nodes) : nodes[n].caughtCount <= 1

\* C7: the score delta of a catch is round(instance score value x multiplier of
\* the tier resolved for the combo count after this catch's increment).
C7_DeltaAfterComboUpdate ==
  \A i \in EvOf("SCORE_UPDATED") :
    \E j \in EvOf("HOOK_CATCH") :
      /\ j < i
      /\ ev[i][3] = RoundHalf(getObjectConfig(ev[j][3]).baseScoreValue
                              * comboTiers[resolveTier(combo.comboCount)].mult2)

\* the third catch in a row, scored at multiplier 1.5
C7_Witness ==
  \E i \in EvOf("SCORE_UPDATED") : ev[i][4] = 3 /\ combo.comboCount = 3

\* C8: fail-soft is active exactly when the consecutive-failure counter has
\* reached the threshold.
C8_FailSoftIff ==
  combo.failSoftActive <=> combo.consecutiveFailures >= FAIL_SOFT_THRESHOLD

\* a catch has just cleared fail-soft
C8_Witness ==
  /\ \E i \in EvOf("FAIL_SOFT_ACTIVE") : ev[i][2] = FALSE
  /\ EvOf("HOOK_CATCH") # {}
  /\ combo.consecutiveFailures = 0

\* C9: the session maximum is never below the combo count and never
\* decreases, and every handled catch raises the combo count by exactly one
\* (so N catches in a row from a reset combo give N), while only a miss
\* lowers it.
C9_ComboMonotone ==
  /\ [](combo.maxComboReached >= combo.comboCount)
  /\ [][/\ combo'.maxComboReached >= combo.maxComboReached
        /\ (\E i \in 1..Len(ev') : ev'[i][1] = "HOOK_CATCH")
             => combo'.comboCount = combo.comboCount + 1
        /\ combo'.comboCount < combo.comboCount
             => (\E i \in 1..Len(ev') : ev'[i][1] = "HOOK_MISS")]_vars

\* three catches in a row
C9_Witness == combo.comboCount = 3 /\ combo.maxComboReached = 3 /\ EvOf("HOOK_CATCH") # {}

\* C3: the number of simultaneously active spawn instances never exceeds
\* maxActiveObjects.
C3_ActiveWithinMax == Len(sp.active) <= maxActiveObjects

\* C4: resuming a paused session leaves the remaining time and the difficulty
\* tier index as they were.
C4_ResumeKeepsTimer ==
  [][(gm.state = "PAUSED" /\ gm'.state = "PLAYING")
       => (gm'.timeLeft = gm.timeLeft /\ gm'.diffIdx = gm.diffIdx)]_vars

\* C6: every state change enters RESULT only from PLAYING, enters PAUSED only
\* from PLAYING, and leaves PAUSED only for PLAYING.
C6_FsmEdges ==
  \A i \in EvOf("GAME_STATE_CHANGE") :
    /\ ev[i][3] = "RESULT" => ev[i][2] = "PLAYING"
    /\ ev[i][3] = "PAUSED" => ev[i][2] = "PLAYING"
    /\ ev[i][2] = "PAUSED" => ev[i][3] = "PLAYING"

\* RESULT entered in a round that was paused and resumed (only a resume makes
\* a round last longer than the session duration)
C6_Witness ==
  /\ \E i \in EvOf("GAME_STATE_CHANGE") : ev[i][2] = "PLAYING" /\ ev[i][3] = "RESULT"
  /\ env.frames * 1000 > totalTime + 1000

RhythmFired(trace) == {i \in 1..Len(trace) : trace[i] = <<"FORCE_BONUS_SPAWN", "rhythm">>}

\* C10: the time since the last catch stays below the reward-rhythm interval
\* after every step; a frame of the running scheduler in which it reaches the
\* interval with no catch fires the rhythm; a frame fires it at most once, and
\* firing it resets the counter to 0 and spawns one bonus_gold instance; a
\* catch restarts the counter, which then holds at most that frame's time.
C10_RewardRhythm ==
  /\ [](/\ sp.timeSinceLastCatch < REWARD_RHYTHM_INTERVAL_S * 1000
        /\ Cardinality(RhythmFired(ev)) <= 1
        /\ \A i \in RhythmFired(ev) :
             /\ sp.timeSinceLastCatch = 0
             /\ i + 1 < Len(ev)
             /\ ev[i + 1] = <<"attempt", FTUE_OBJECT_ID>>
             /\ ev[i + 2][1] = "spawned"
             /\ ev[i + 2][3] = FTUE_OBJECT_ID
             /\ ev[i + 2][2] \in {sp.active[k] : k \in 1..Len(sp.active)})
  /\ [][/\ (/\ env'.dt > 0
            /\ sp.isRunning /\ sp'.isRunning
            /\ \A i \in 1..Len(ev') : ev'[i][1] # "HOOK_CATCH"
            /\ sp.timeSinceLastCatch + env'.dt >= REWARD_RHYTHM_INTERVAL_S * 1000)
             => RhythmFired(ev') # {}
        /\ (\E i \in 1..Len(ev') : ev'[i][1] = "HOOK_CATCH")
             => sp'.timeSinceLastCatch <= env'.dt]_vars

\* the rhythm has just fired, nine seconds after a catch
C10_Witness == RhythmFired(ev) # {} /\ env.taps > 0 /\ env.frames > 9

\* C11: a draw from a weight table in which a category has weight 0 never
\* returns that category, whatever Math.random() returns.
C11_ZeroWeightNeverDrawn ==
  draw.result # "none" => WeightOf(draw.table, getObjectConfig(draw.result)) > 0

\* elapsed time of the round, ms
Elapsed == totalTime - gm.timeLeft

\* C12: after every PLAYING tick the difficulty tier index is that of the
\* largest bracket start that is <= elapsed time; from 15 s until 30 s of
\* elapsed time it is 1.
C12_TierFollowsElapsed ==
  EvOf("TIMER_TICK") # {} =>
    /\ DIFFICULTY_TIME_BRACKETS[gm.diffIdx + 1] * 1000 <= Elapsed
    /\ \A j \in 1..Len(DIFFICULTY_TIME_BRACKETS) :
         DIFFICULTY_TIME_BRACKETS[j] * 1000 <= Elapsed
           => DIFFICULTY_TIME_BRACKETS[j] <= DIFFICULTY_TIME_BRACKETS[gm.diffIdx + 1]
    /\ (15000 <= Elapsed /\ Elapsed < 30000) => gm.diffIdx = 1

\* the tick at 16 s of elapsed time, tier index 1
C12_Witness == EvOf("TIMER_TICK") # {} /\ Elapsed = 16000 /\ gm.diffIdx = 1

\* C13: while the session stays PAUSED no simulation state advances: the
\* remaining time, the tier, the hook, the spawn scheduler's accumulators and
\* flags and the instances are unchanged, and hook input is disabled.
C13_PausedFreezes ==
  [][(gm.state = "PAUSED" /\ gm'.state = "PAUSED")
       => /\ gm'.timeLeft = gm.timeLeft
          /\ gm'.diffIdx = gm.diffIdx
          /\ hook' = hook
          /\ ~hook'.inputEnabled
          /\ sp' = sp
          /\ nodes' = nodes]_vars

\* the instances a pool has created and not destroyed: those still in its
\* prewarmed stock and those that have left it at least once
Created(key) ==
  pools[key].fresh
    + Cardinality({n \in 1..Len(nodes) : nodes[n].pool = key /\ ~nodes[n].destroyed})

\* C14: a pool never allocates beyond its hard capacity: an acquire made at
\* capacity yields no instance, so no pool ever owns more than poolMaxSize
\* instances.
C14_AcquireRefusedAtCapacity ==
  \A key \in DOMAIN pools : Created(key) <= poolMaxSize

OnFreeList(n) ==
  /\ nodes[n].pool \in DOMAIN pools
  /\ \E k \in 1..Len(pools[nodes[n].pool].freed) : pools[nodes[n].pool].freed[k] = n

\* C16: a caught instance is retired: after the step that emitted HOOK_CATCH
\* for it, it is off the active list, deactivated and on its pool's free list
\* (unless a spawn later in the same step has re-acquired it).
C16_CatchRetiresInstance ==
  \A i \in EvOf("HOOK_CATCH") :
    \/ /\ \A k \in 1..Len(sp.active) : sp.active[k] # ev[i][2]
       /\ ~nodes[ev[i][2]].active
       /\ OnFreeList(ev[i][2])
    \/ \E j \in EvOf("spawned") : j > i /\ ev[j][2] = ev[i][2]

\* C17: every round terminates: with frames that keep coming and every
\* pause followed by a resume, a session that is PLAYING eventually
\* enters RESULT, however many times it is paused and resumed.
C17_RoundTerminates == (gm.state = "PLAYING") ~> (gm.state = "RESULT")

\* C18: pause() outside PLAYING and resume() outside PAUSED are no-ops: in
\* every state where they would be called so they leave everything as it is
\* (mode, remaining time, tier, hook input flag) and emit nothing, and every
\* pause() actually called outside PLAYING changed nothing and emitted nothing.
C18_PauseResumeIdempotent ==
  /\ [](/\ gm.state # "PAUSED" => GM_resume(World) = World
        /\ gm.state # "PLAYING" => GM_pause(World) = World)
  /\ [][(env'.pauses = env.pauses + 1 /\ gm.state # "PLAYING")
          => (gm' = gm /\ hook' = hook /\ ev' = <<>>)]_vars

\* pause() has just been called on a session that was already PAUSED
C18_Witness == gm.state = "PAUSED" /\ env.pauses = 2 /\ ev = <<>> /\ env.dt = 0

\* C19: the hook mode changes only along SWINGING -> DROPPING,
\* DROPPING -> CAUGHT, DROPPING -> RETRACTING, CAUGHT -> SWINGING and
\* RETRACTING -> SWINGING, the last two with the line back at its minimum
\* length, pause and resume included.
C19_HookEdges ==
  [][hook'.hookState # hook.hookState =>
       /\ <<hook.hookState, hook'.hookState>> \in
            {<<"SWINGING", "DROPPING">>, <<"DROPPING", "CAUGHT">>,
             <<"DROPPING", "RETRACTING">>, <<"CAUGHT", "SWINGING">>,
             <<"RETRACTING", "SWINGING">>}
       /\ hook'.hookState = "SWINGING" => hook'.lineLength = HOOK_LINE_MIN_LENGTH * 1000]_vars

\* the events of this kind in a trace
CountOf(trace, kind) == Cardinality({i \in 1..Len(trace) : trace[i][1] = kind})

\* C20: each accepted drop yields exactly one outcome signal before the next
\* drop is accepted: HOOK_CATCH is emitted only by the step that takes the
\* hook from DROPPING to CAUGHT, and once; the hook returns to SWINGING from
\* CAUGHT with no HOOK_MISS, from RETRACTING with exactly one, and from no
\* other mode; HOOK_MISS is emitted by no other step.
C20_OneOutcomePerDrop ==
  [][/\ CountOf(ev', "HOOK_CATCH") > 0 =>
          /\ CountOf(ev', "HOOK_CATCH") = 1
          /\ hook.hookState = "DROPPING" /\ hook'.hookState = "CAUGHT"
     /\ CountOf(ev', "HOOK_MISS") > 0 =>
          hook.hookState = "RETRACTING" /\ hook'.hookState = "SWINGING"
     /\ (hook.hookState # "SWINGING" /\ hook'.hookState = "SWINGING") =>
          \/ hook.hookState = "CAUGHT" /\ CountOf(ev', "HOOK_MISS") = 0
          \/ hook.hookState = "RETRACTING" /\ CountOf(ev', "HOOK_MISS") = 1]_vars

\* C21: at finalisation NEAR_MISS is emitted if and only if the final score
\* did not beat the best stored before the round and is at least 95% of it;
\* it is never emitted when the summary reports a new high score.
C21_NearMissIff ==
  [][(gm.lastSessionResult = NoResult /\ gm'.lastSessionResult # NoResult) =>
       LET final == gm'.lastSessionResult.currentScore
           best  == storage.highScore
           fired == \E i \in 1..Len(ev') : ev'[i][1] = "NEAR_MISS"
       IN /\ fired <=> (/\ ~(final > best)
                        /\ final * 100 >= (100 - NEAR_MISS_RATIO_PCT) * best)
          /\ gm'.lastSessionResult.isNewHighScore => ~fired]_vars

\* C22: within a round HIGH_SCORE_BEATEN fires at most once, in the first
\* catch that takes the running score above the best stored at round start;
\* from then on the flag stays set and the in-memory best is never below the
\* running score, so a score that drops and rises again does not re-fire it.
C22_BeatenOnce ==
  [][LET fired == \E i \in 1..Len(ev') : ev'[i][1] = "HIGH_SCORE_BEATEN"
         first == /\ score.sessionHighScore <= storage.highScore
                  /\ score'.currentScore > storage.highScore
                  /\ gm.loading = "done"
     IN /\ fired <=> first
        /\ fired => ~score.isNewHighScore /\ score'.isNewHighScore
        /\ Cardinality({i \in 1..Len(ev') : ev'[i][1] = "HIGH_SCORE_BEATEN"}) <= 1
        /\ (score.isNewHighScore /\ gm.loading = "done") => score'.isNewHighScore
        /\ score'.persistedBest >= score'.currentScore]_vars

\* the score has been above the stored best, has dropped to it or below, and
\* this catch takes it above again without the signal
C22_Witness ==
  /\ score.isNewHighScore
  /\ score.currentScore > storage.highScore
  /\ score.currentScore < score.sessionHighScore
  /\ \E i \in EvOf("SCORE_UPDATED") : ev[i][3] > 0 /\ ev[i][2] - ev[i][3] <= storage.highScore
  /\ EvOf("HIGH_SCORE_BEATEN") = {}

\* C23: a touch changes the hook only when input is enabled and the hook is
\* SWINGING (it then starts the drop); in every other case the touch leaves
\* the hook's mode, angle, line length and caught reference unchanged.
C23_TouchOnlyWhenSwinging ==
  [][(\E i \in 1..Len(ev') : ev'[i][1] = "TOUCH_START") =>
       IF hook.inputEnabled /\ hook.hookState = "SWINGING"
       THEN hook' = [hook EXCEPT !.hookState = "DROPPING"]
       ELSE /\ hook'.hookState = hook.hookState
            /\ hook'.angle = hook.angle
            /\ hook'.lineLength = hook.lineLength
            /\ hook'.caught = hook.caught]_vars

\* a touch has just been ignored with an instance on the hook
C23_Witness ==
  /\ EvOf("TOUCH_START") # {}
  /\ hook.inputEnabled
  /\ hook.hookState = "CAUGHT"
  /\ hook.caught # NoNode

\* C24: when the GameManager has been destroyed while the consent or the
\* profile call of LOADING was outstanding, the completion of that call
\* abandons the transition: score, combo and spawner are not initialised,
\* the shared player data is not written, nothing is consumed from storage
\* and no transition to PLAYING is scheduled.
C24_AbandonWhenInvalid ==
  [][(~gm.isValid /\ gm.loading \in {"consent", "userinfo"} /\ gm'.loading # gm.loading) =>
       /\ UNCHANGED <<score, combo, sp, pools, nodes, sched, storage>>
       /\ gm'.playerData = gm.playerData
       /\ gm'.state = gm.state]_vars

\* C25: a spawn attempt for a category that has no pool is skipped without
\* error: it configures no instance and leaves the active set, the nodes
\* and the pools as they were; the spawner keeps running with its spawn
\* timer restarted, and every attempt for a category that has a pool, later
\* ones included, still configures an instance.
C25_MissingPoolSkipped ==
  [][LET tried   == {i \in 1..Len(ev') : ev'[i][1] = "attempt"}
         pooled  == {i \in tried : resolvePoolKey(ev'[i][2]) \in DOMAIN pools'}
         spawned == {i \in 1..Len(ev') : ev'[i][1] = "spawned"}
     IN /\ Cardinality(spawned) = Cardinality(pooled)
        /\ \A i \in spawned : resolvePoolKey(ev'[i][3]) \in DOMAIN pools'
        /\ (tried # {} /\ pooled = {}) =>
              /\ sp'.isRunning /\ sp'.spawnTimer = 0
              /\ pools' = pools
              /\ Len(nodes') = Len(nodes)
              /\ \A n \in 1..Len(sp'.active) : \E m \in 1..Len(sp.active) : sp'.active[n] = sp.active[m]]_vars

\* an instance is spawned 5 s into play as the first node ever acquired:
\* the attempts before it were all skipped
C25_Witness ==
  /\ EvOf("spawned") # {}
  /\ Len(nodes) = 1
  /\ env.frames >= 5
  /\ "obstacle_rock" \notin DOMAIN pools

\* C26: within one tick in DROPPING the catch test measures from the tip
\* position that already has this tick's advance of the line: the length
\* the tip was computed from is the line length the tick leaves.
C26_TipReflectsAdvance ==
  [][\A i \in 1..Len(ev') : ev'[i][1] = "tipTested" => ev'[i][2] = hook'.lineLength]_vars

\* C27: while first-time-user mode is on with guaranteed catches remaining,
\* every scheduled spawn (an attempt made by the spawn timer, not by a
\* forced bonus) is for bonus_gold, and the instance is spawned as a
\* first-time-user one in lane 0 at a speed of at most 60, fail-soft
\* active or not.
C27_FtueSpawnFirst ==
  [][(sp'.ftueMode /\ sp'.ftueRemaining > 0) =>
       \A i \in 1..Len(ev') :
         (ev'[i][1] = "attempt" /\ (i = 1 \/ ev'[i - 1][1] # "FORCE_BONUS_SPAWN")) =>
           /\ ev'[i][2] = FTUE_OBJECT_ID
           /\ i < Len(ev')
           /\ ev'[i + 1][1] = "spawned"
           /\ ev'[i + 1][3] = FTUE_OBJECT_ID
           /\ ev'[i + 1][4]
           /\ ev'[i + 1][5] = 0
           /\ ev'[i + 1][6] <= 60 * 10000]_vars

\* a scheduled spawn under fail-soft in first-time-user mode, with the
\* random speed above 60 and the random lane the deepest
C27_Witness ==
  /\ sp.ftueMode /\ sp.ftueRemaining > 0
  /\ sp.failSoftActive
  /\ env.speedR = 99 /\ env.laneR = 99
  /\ \E i \in EvOf("spawned") : ev[i][4] /\ ev[i][6] = 60 * 10000

\* C28: in first-time-user mode every catch of the BONUS category
\* (bonus_gold) lowers the guaranteed-catch counter by exactly one and no
\* other step changes it; a first-time player's counter starts at 3, it is
\* never negative, the mode is on exactly while the counter is above zero,
\* and once off it stays off for the round.
C28_FtueCounter ==
  [][IF gm.loading # "done"
     THEN gm'.loading = "done" =>
            /\ sp'.ftueMode = (storage.totalGamesPlayed = 0)
            /\ sp'.ftueRemaining = IF sp'.ftueMode THEN FTUE_GUARANTEED_CATCHES ELSE 0
     ELSE LET bonus == {i \in 1..Len(ev') :
                          ev'[i][1] = "HOOK_CATCH" /\ getObjectConfig(ev'[i][3]).type = "BONUS"}
          IN /\ sp'.ftueRemaining = sp.ftueRemaining - (IF sp.ftueMode THEN Cardinality(bonus) ELSE 0)
             /\ sp'.ftueRemaining >= 0
             /\ sp'.ftueMode <=> sp'.ftueRemaining > 0
             /\ ~sp.ftueMode => ~sp'.ftueMode]_vars

\* the third guaranteed catch has just ended first-time-user mode
C28_Witness ==
  /\ \E i \in EvOf("FTUE_CATCH") : ev[i][2] = 0
  /\ ~sp.ftueMode
  /\ sp.ftueRemaining = 0
  /\ storage.totalGamesPlayed = 0

\* C29: while the spawner's fail-soft flag is set and first-time-user mode
\* does not apply, no scheduled spawn (an attempt made by the spawn timer)
\* is for obstacle_rock.
C29_NoHazardInFailSoft ==
  [][(sp'.failSoftActive /\ ~(sp'.ftueMode /\ sp'.ftueRemaining > 0)) =>
       \A i \in 1..Len(ev') :
         (ev'[i][1] = "attempt" /\ (i = 1 \/ ev'[i - 1][1] # "FORCE_BONUS_SPAWN")) =>
           ev'[i][2] # "obstacle_rock"]_vars

\* under fail-soft the roll that selects obstacle_rock on the catalogue
\* weights has just selected bonus_gold
C29_Witness ==
  /\ sp.failSoftActive
  /\ ~sp.ftueMode
  /\ EvOf("FORCE_BONUS_SPAWN") = {}
  /\ \E i \in EvOf("attempt") : ev[i][2] = "bonus_gold"
  /\ rollRandomObject(NoOverride, 85).id = "obstacle_rock"

C31_ResultAbsorbing ==
  [][/\ (gm.state # "RESULT" /\ gm'.state = "RESULT") =>
          /\ gm.lastSessionResult = NoResult /\ gm'.lastSessionResult # NoResult
          /\ Cardinality({i \in 1..Len(ev') : ev'[i][1] = "SESSION_END"}) = 1
     /\ gm'.lastSessionResult # gm.lastSessionResult =>
          gm.state # "RESULT" /\ gm'.state = "RESULT"
     /\ gm.state = "RESULT" =>
          /\ gm'.state = "RESULT"
          /\ score' = score
          /\ combo' = combo
          /\ storage' = storage
          /\ \A i \in 1..Len(ev') : ev'[i][1] \notin {"SESSION_END", "NEAR_MISS"}]_vars

\* a catch signal has just been delivered after the round ended
C31_Witness ==
  /\ gm.state = "RESULT"
  /\ gm.isValid
  /\ EvOf("HOOK_CATCH") # {}
  /\ EvOf("SESSION_END") = {}
  /\ gm.lastSessionResult.currentScore = score.currentScore

\* C32: for a combo count c >= 1 the current tier is the entry of the table
\* (thresholds 1, 3, 5, 8, 12; multipliers 1, 1.5, 2, 3, 4) with the largest
\* minCombo <= c, the multiplier never decreases as c grows, and for c = 0
\* the tier is the baseline one (multiplier 1, empty label).
C32_TierResolved ==
  LET c == combo.comboCount
      t == comboTiers[combo.currentTier]
  IN /\ [i \in 1..Len(comboTiers) |-> comboTiers[i].minCombo] = <<1, 3, 5, 8, 12>>
     /\ [i \in 1..Len(comboTiers) |-> comboTiers[i].mult2] = <<2, 3, 4, 6, 8>>
     /\ c = 0 => t.mult2 = 2 /\ t.label = ""
     /\ c >= 1 =>
          /\ t.minCombo <= c
          /\ \A j \in 1..Len(comboTiers) :
               comboTiers[j].minCombo <= c => comboTiers[j].minCombo <= t.minCombo
     /\ \A b \in 1..c : comboTiers[resolveTier(b)].mult2 <= t.mult2
     /\ \A i \in 1..Len(ev) :
          ev[i][1] = "COMBO_UPDATED" => ev[i][2] = c /\ ev[i][3] = t.mult2

\* a streak that has just reached a tier's threshold, and one beyond the last
C32_Witness ==
  /\ combo.comboCount \in {3, 5, 8, 12, MaxCombo}
  /\ EvOf("COMBO_UPDATED") # {}
  /\ combo.maxComboReached = MaxCombo

\* C33: a HOOK_MISS handled while PLAYING sets the combo count to 0, adds
\* exactly one to the consecutive-failure counter and to the miss counter,
\* and leaves the running score, the session high-water mark, the catch
\* counter and the session-max combo unchanged.
C33_MissEffect ==
  [][(/\ gm.state = "PLAYING" /\ gm'.state = "PLAYING" /\ gm.isValid
      /\ \E i \in 1..Len(ev') : ev'[i][1] = "HOOK_MISS"
      /\ \A i \in 1..Len(ev') : ev'[i][1] # "HOOK_CATCH") =>
        /\ combo'.comboCount = 0
        /\ combo'.consecutiveFailures = combo.consecutiveFailures + 1
        /\ score'.objectsMissed = score.objectsMissed + 1
        /\ score'.currentScore = score.currentScore
        /\ score'.sessionHighScore = score.sessionHighScore
        /\ score'.objectsCaught = score.objectsCaught
        /\ combo'.maxComboReached = combo.maxComboReached
        /\ storage' = storage]_vars

\* a miss has just ended a streak of two catches that had scored
C33_Witness ==
  /\ gm.state = "PLAYING"
  /\ EvOf("HOOK_MISS") # {}
  /\ combo.comboCount = 0
  /\ combo.maxComboReached >= 2
  /\ combo.consecutiveFailures = 1
  /\ score.currentScore > 0
  /\ score.objectsMissed = 1

\* C34: a first-time-user-mode instance that leaves the play field uncaught
\* is taken off the active list and released to its pool, and the exit is no
\* miss: it emits no HOOK_MISS, and in a frame in which the hook reports
\* nothing the combo count, the failure counter, the score, the miss counter
\* and the remaining-guaranteed-catch counter keep their values.
C34_ExitWithoutPenalty ==
  [][\A n \in {ev'[i][2] : i \in {j \in 1..Len(ev') : ev'[j][1] = "despawn"}} :
       /\ \A k \in 1..Len(sp'.active) : sp'.active[k] # n
       /\ ~nodes'[n].active
       /\ \E k \in 1..Len(pools'[nodes'[n].pool].freed) :
             pools'[nodes'[n].pool].freed[k] = n
       /\ ev'[Len(ev')] = <<"despawn", n>>
       /\ (\E i \in 1..Len(ev') : ev'[i][1] = "HOOK_MISS") =>
             hook.hookState \in {"DROPPING", "RETRACTING"}
       /\ (\A i \in 1..Len(ev') : ev'[i][1] \notin {"HOOK_MISS", "HOOK_CATCH"}) =>
             /\ combo' = combo
             /\ score' = score
             /\ sp'.ftueRemaining = sp.ftueRemaining
             /\ sp'.ftueMode = sp.ftueMode]_vars

\* a tutorial instance has just left the play field, after a catch had
\* started a streak
C34_Witness ==
  /\ EvOf("despawn") # {}
  /\ combo.comboCount = 1
  /\ sp.ftueRemaining = FTUE_GUARANTEED_CATCHES - 1
  /\ score.objectsMissed = 0

\* C35: only the spawner retires instances: the instance the hook holds or
\* has just caught is on no free list, a step puts on a free list only
\* instances that were on the spawner's active list or were spawned in that
\* step, and no free list holds an instance twice (none is released again
\* before it is acquired again).
C35_ReleasedOnce ==
  [][/\ \A key \in DOMAIN pools' :
          \A a, b \in 1..Len(pools'[key].freed) :
            pools'[key].freed[a] = pools'[key].freed[b] => a = b
     /\ \A n \in 1..Len(nodes') :
          (\E k \in 1..Len(pools'[nodes'[n].pool].freed) :
             pools'[nodes'[n].pool].freed[k] = n) =>
            /\ ~nodes'[n].active
            /\ ~nodes'[n].destroyed
            /\ \A k \in 1..Len(sp'.active) : sp'.active[k] # n
            /\ hook'.caught # n
            /\ \A i \in 1..Len(ev') : ev'[i][1] = "HOOK_CATCH" => ev'[i][2] # n
            /\ \/ n \in 1..Len(nodes) /\ OnFreeList(n)
               \/ \E k \in 1..Len(sp.active) : sp.active[k] = n
               \/ \E i \in 1..Len(ev') : ev'[i][1] = "spawned" /\ ev'[i][2] = n]_vars

\* the round has ended with stop() releasing an instance, after another
\* had left the play field and a third had been caught
C35_Witness ==
  /\ gm.state = "RESULT"
  /\ EvOf("SESSION_END") # {}
  /\ score.objectsCaught = 1
  /\ \E key \in DOMAIN pools : Len(pools[key].freed) >= 2
  /\ \E n \in 1..Len(nodes) : nodes[n].caughtCount = 1 /\ ~OnFreeList(n)

\* C36: finalisation never lowers the stored record: the value under the
\* high-score key after finalise() is the larger of the final score and the
\* value stored before, and it is the best score of the session summary.
C36_RecordNeverLowered ==
  [][(gm.state # "RESULT" /\ gm'.state = "RESULT") =>
        /\ storage'.highScore = Max(score'.currentScore, storage.highScore)
        /\ storage'.highScore = gm'.lastSessionResult.highScore]_vars

\* C37: once the round has been initialised, the spawner's fail-soft flag
\* equals the combo engine's in every state, so both change in the same
\* step.
C37_FailSoftFlagsAgree ==
  (gm.isValid /\ gm.loading = "done") => sp.failSoftActive = combo.failSoftActive

\* fail-soft was raised by misses in a row and has just been cleared by a
\* catch
C37_Witness ==
  /\ gm.state = "PLAYING"
  /\ EvOf("FAIL_SOFT_ACTIVE") # {}
  /\ EvOf("HOOK_CATCH") # {}
  /\ ~sp.failSoftActive
  /\ score.objectsMissed >= FAIL_SOFT_THRESHOLD

\* C38: throughout a round the difficulty in effect is that of the tier
\* index: the spawn interval is baseSpawnIntervalMs / spawnRateMultiplier,
\* the object-speed multiplier is the tier's, and, while the tutorial is not
\* running, the hook's swing speed is hookBaseSpeed x hookSpeedMultiplier.
C38_DifficultyInEffect ==
  (gm.isValid /\ gm.state \in {"PLAYING", "PAUSED"}) =>
    LET tier == difficultyLevels[gm.diffIdx + 1] IN
    /\ sp.spawnInterval = [num |-> baseSpawnIntervalMs * 100, den |-> tier.spawnRate100]
    /\ sp.speedMultiplier100 = tier.objectSpeed100
    /\ ~ftueCtrl.active => hook.swingSpeed100 = hookBaseSpeed * tier.hookSpeed100

\* C39: for a show that entered SHOWING, in whatever order the rejection of
\* show(), onError and onClose arrive, the promise is resolved at most once,
\* one reward event is emitted exactly when it is resolved and no other,
\* and that event is AD_REWARD_GRANTED exactly when the result is GRANTED.
C39_OneRewardEvent ==
  /\ Len(ad.resolved) <= 1
  /\ Len(ad.emitted) = Len(ad.resolved)
  /\ \A i \in 1..Len(ad.emitted) :
       ad.emitted[i] = "AD_REWARD_GRANTED" <=> ad.resolved[i] = "GRANTED"
  /\ ad.pendingResolve => ad.resolved = <<>>

====
